---- MODULE Spec2Model ----
(***************************************************************************)
(* A model of the core of the gluon virtual machine (vm/src/vm.rs): the    *)
(* tagged value, the managed heap and its tracing, the evaluation stack    *)
(* with its frames, the calling convention of the interpreter, and the     *)
(* registry of globals.                                                    *)
(*                                                                         *)
(* The stack (stack.rs) and the collector (gc.rs) are used by vm.rs but    *)
(* are separate files; their operations are modelled from the way vm.rs    *)
(* uses them and from the design document.                                 *)
(***************************************************************************)
EXTENDS Integers, Sequences, FiniteSets, TLC

VARIABLES
    heap,           \* Gc: every object ever allocated, by address 1..Len(heap)
    freed,          \* Gc: the addresses the collector has freed
    values,         \* Stack.values
    frames,         \* Stack.frames
    globals,        \* GlobalVMState.globals
    names,          \* GlobalVMState.names
    roots,          \* Thread.roots
    rooted_values,  \* Thread.rooted_values
    type_infos,     \* GlobalVMState.type_infos: id_to_type and type_to_id
    typeids,        \* GlobalVMState.typeids: the type of each host type id
    pc,             \* where control is: the host, the dispatch loop, an instruction
    index,          \* the local instruction index of execute_
    ret,            \* what the last host-facing operation returned
    host            \* the host's own bookkeeping of what it asked for

vars == <<heap, freed, values, frames, globals, names, roots, rooted_values,
          type_infos, typeids, pc, index, ret, host>>

-----------------------------------------------------------------------------
(* Bounds of the model.                                                    *)

MaxRooted == 1
MaxDepth == 3
MaxPushed == 1
MaxHandles == 2
MaxObjects == 1
MaxGlobals == 3
MaxFields == 2
MaxTag == 1

-----------------------------------------------------------------------------
(* Values (enum Value) and callables (enum Callable).                      *)

IntVal(i) == [k |-> "Int", v |-> i]
Float(x) == [k |-> "Float", v |-> x]
String(p) == [k |-> "String", v |-> p]
Data(p) == [k |-> "Data", v |-> p]
Function(p) == [k |-> "Function", v |-> p]
Closure(p) == [k |-> "Closure", v |-> p]
PartialApplication(p) == [k |-> "PartialApplication", v |-> p]
Userdata(p) == [k |-> "Userdata", v |-> p]
Lazy(p) == [k |-> "Lazy", v |-> p]
ThreadVal(p) == [k |-> "Thread", v |-> p]

CallableClosure(p) == [k |-> "Closure", v |-> p]
CallableExtern(p) == [k |-> "Extern", v |-> p]
None == [k |-> "None", v |-> 0]

PointerKinds == {"String", "Data", "Function", "Closure", "PartialApplication",
                 "Userdata", "Lazy", "Thread"}

-----------------------------------------------------------------------------
(* Heap objects.                                                           *)

DataStruct(tag, fields) == [kind |-> "Data", tag |-> tag, fields |-> fields]
ClosureData(function, upvars) ==
    [kind |-> "Closure", function |-> function, upvars |-> upvars]
PartialApplicationData(function, arguments) ==
    [kind |-> "PartialApplication", function |-> function, arguments |-> arguments]
ExternFunction(id, args) == [kind |-> "Extern", id |-> id, args |-> args]
BytecodeFunction(name, args, instructions, inner_functions) ==
    [kind |-> "Bytecode", name |-> name, args |-> args,
     instructions |-> instructions, inner_functions |-> inner_functions]
ThreadObject == [kind |-> "Thread"]

\* The state the interpreter works on: the stack, the heap, and where control is.
State ==
    [values |-> values, frames |-> frames, heap |-> heap, freed |-> freed,
     pc |-> pc, index |-> index, ret |-> ret]

\* Callable::args
CallableArgs(m, callable) ==
    IF callable.k = "Closure"
    THEN m.heap[m.heap[callable.v].function].args
    ELSE m.heap[callable.v].args

-----------------------------------------------------------------------------
(* Tracing (the Traverseable implementations).                             *)

\* Value::traverse: the object a value points to, if any.
ValueTraverse(v) == IF v.k \in PointerKinds THEN {v.v} ELSE {}

SliceTraverse(s) == UNION {ValueTraverse(s[i]) : i \in 1..Len(s)}

\* Callable::traverse: a closure is traced, an extern function is not.
CallableTraverse(c) == IF c.k = "Closure" THEN {c.v} ELSE {}

\* What tracing one object marks next.
ObjectTraverse(o) ==
    CASE o.kind = "Data" -> SliceTraverse(o.fields)
      [] o.kind = "Closure" -> {o.function} \cup SliceTraverse(o.upvars)
      [] o.kind = "PartialApplication" ->
             CallableTraverse(o.function) \cup SliceTraverse(o.arguments)
      [] o.kind = "Bytecode" -> {o.inner_functions[i] : i \in 1..Len(o.inner_functions)}
      [] OTHER -> {}

\* Every object an object holds a pointer to, traced or not.
ObjectRefs(o) ==
    CASE o.kind = "PartialApplication" -> {o.function.v} \cup SliceTraverse(o.arguments)
      [] OTHER -> ObjectTraverse(o)

\* Roots::traverse with Thread::traverse_fields_except_stack: the thread
\* object itself, the stack, the globals, the pinned objects, the pinned values.
RootsTraverse(m) ==
    SliceTraverse(m.values)
      \cup UNION {ValueTraverse(globals[i].value) : i \in 1..Len(globals)}
      \cup {roots[i] : i \in 1..Len(roots)}
      \cup SliceTraverse(rooted_values)

RECURSIVE MarkFrom(_, _, _)
MarkFrom(h, todo, marked) ==
    IF todo = {} THEN marked
    ELSE LET p == CHOOSE q \in todo : TRUE
         IN IF p \in marked
            THEN MarkFrom(h, todo \ {p}, marked)
            ELSE MarkFrom(h, (todo \ {p}) \cup ObjectTraverse(h[p]), marked \cup {p})

RECURSIVE ReachFrom(_, _, _)
ReachFrom(h, todo, seen) ==
    IF todo = {} THEN seen
    ELSE LET p == CHOOSE q \in todo : TRUE
         IN IF p \in seen
            THEN ReachFrom(h, todo \ {p}, seen)
            ELSE ReachFrom(h, (todo \ {p}) \cup ObjectRefs(h[p]), seen \cup {p})

\* Gc::collect: mark from the roots, free what is not marked.
GcCollect(m, rootset) ==
    [m EXCEPT !.freed = @ \cup ((1..Len(m.heap)) \ MarkFrom(m.heap, rootset, {}))]

\* Gc::alloc.
GcAlloc(m, o) == [m EXCEPT !.heap = Append(@, o)]

\* VM::alloc: Gc::alloc_and_collect with the roots of the thread; the object
\* being built is traced as a root too. Whether the collection limit has been
\* reached is the collector's business: c says whether it has.
alloc(m, o, c) ==
    GcAlloc(IF c THEN GcCollect(m, RootsTraverse(m) \cup ObjectTraverse(o)) ELSE m, o)

\* The address alloc gives the new object.
NewPtr(m) == Len(m.heap) + 1

-----------------------------------------------------------------------------
(* The evaluation stack: StackFrame over Stack.                            *)

Frame(m) == m.frames[Len(m.frames)]
len(m) == Len(m.values) - Frame(m).offset
get(m, i) == m.values[Frame(m).offset + i + 1]
top(m) == m.values[Len(m.values)]
push(m, v) == [m EXCEPT !.values = Append(@, v)]
pop(m) == [m EXCEPT !.values = SubSeq(@, 1, Len(@) - 1)]
popn(m, n) == [m EXCEPT !.values = SubSeq(@, 1, Len(@) - n)]
pushall(m, s) == [m EXCEPT !.values = @ \o s]
\* &stack[stack.len() - n..]
topn(m, n) == SubSeq(m.values, Len(m.values) - n + 1, Len(m.values))

insert_slice(m, offset, s) ==
    LET at == Frame(m).offset + offset
    IN [m EXCEPT !.values = SubSeq(@, 1, at) \o s \o SubSeq(@, at + 1, Len(@))]

remove_range(m, from, to) ==
    LET b == Frame(m).offset
    IN [m EXCEPT !.values = SubSeq(@, 1, b + from) \o SubSeq(@, b + to + 1, Len(@))]

\* A frame whose base is the top of the stack, above its arguments.
MutFrameAboveArguments(m, args, function) ==
    [offset |-> Len(m.values), instruction_index |-> 0,
     function |-> function, excess |-> FALSE]
\* The frame of enter_scope: its base is the first of the args arguments.
NewFrame(m, args, function) ==
    [offset |-> Len(m.values) - args, instruction_index |-> 0,
     function |-> function, excess |-> FALSE]

\* StackFrame::frame and StackFrame::enter_scope
enter_scope(m, args, function) ==
    [m EXCEPT !.frames = Append(@, NewFrame(m, args, function))]

\* StackFrame::exit_scope; the caller tests for the last frame.
exit_scope(m) == [m EXCEPT !.frames = SubSeq(@, 1, Len(@) - 1)]

\* stack.frame.excess = e, stack.frame.instruction_index = i
set_excess(m, e) == [m EXCEPT !.frames[Len(m.frames)].excess = e]
set_instruction_index(m, i) ==
    [m EXCEPT !.frames[Len(m.frames)].instruction_index = i]

\* StackFrame::excess_args: the slot below the frame's callable.
excess_args(m) == m.values[Frame(m).offset - 1]

\* StackFrame::get_upvar
get_upvar(m, i) == m.heap[Frame(m).function.v].upvars[i + 1]

-----------------------------------------------------------------------------
(* Instructions (enum Instruction).                                        *)

Push(i) == [op |-> "Push", a |-> i, b |-> 0]
PushInt(i) == [op |-> "PushInt", a |-> i, b |-> 0]
PushGlobal(i) == [op |-> "PushGlobal", a |-> i, b |-> 0]
PushUpVar(i) == [op |-> "PushUpVar", a |-> i, b |-> 0]
Call(args) == [op |-> "Call", a |-> args, b |-> 0]
TailCall(args) == [op |-> "TailCall", a |-> args, b |-> 0]
Construct(tag, args) == [op |-> "Construct", a |-> tag, b |-> args]
GetField(i) == [op |-> "GetField", a |-> i, b |-> 0]
Split == [op |-> "Split", a |-> 0, b |-> 0]
Jump(i) == [op |-> "Jump", a |-> i, b |-> 0]
CJump(i) == [op |-> "CJump", a |-> i, b |-> 0]
MakeClosure(fi, n) == [op |-> "MakeClosure", a |-> fi, b |-> n]
NewClosure(fi, n) == [op |-> "NewClosure", a |-> fi, b |-> n]
CloseClosure(n) == [op |-> "CloseClosure", a |-> n, b |-> 0]
GetIndex == [op |-> "GetIndex", a |-> 0, b |-> 0]
SetIndex == [op |-> "SetIndex", a |-> 0, b |-> 0]
AddInt == [op |-> "AddInt", a |-> 0, b |-> 0]
SubtractInt == [op |-> "SubtractInt", a |-> 0, b |-> 0]
Binop(op) == [op |-> op, a |-> 0, b |-> 0]

-----------------------------------------------------------------------------
(* How a step of the interpreter ends.                                     *)

\* Ok(Some(stack)): back to the loop of execute.
Continue(s) == [s EXCEPT !.pc = "execute", !.index = 0]
\* The next instruction of execute_.
NextInstr(s) == [s EXCEPT !.index = @ + 1]
\* Err(Error::Message(msg)), propagated by try! to the host's call.
Fail(s, msg) ==
    [s EXCEPT !.pc = "host", !.index = 0,
              !.ret = [op |-> "call", st |-> "err", msg |-> msg]]
\* Ok(..) returned to the host's call.
Return(s) ==
    [s EXCEPT !.pc = "host", !.index = 0,
              !.ret = [op |-> "call", st |-> "ok", msg |-> ""]]
\* Ok(None): the last frame was exited.
ReturnNone(s) ==
    [s EXCEPT !.pc = "host", !.index = 0,
              !.ret = [op |-> "call", st |-> "ok", msg |-> "None"]]
\* panic!, a failed expect, an index out of range.
Panic(s, msg) ==
    [s EXCEPT !.pc = "abort", !.index = 0,
              !.ret = [op |-> "call", st |-> "panic", msg |-> msg]]
\* A read through a pointer to a freed object: anything may follow.
Undefined(s) ==
    [s EXCEPT !.pc = "undefined", !.index = 0,
              !.ret = [op |-> "call", st |-> "undefined", msg |-> ""]]

-----------------------------------------------------------------------------
(* The calling convention.                                                 *)

\* VM::execute_callable. The extern branch does not record excess.
execute_callable(s, function, excess) ==
    IF function.k = "Closure"
    THEN Continue(set_excess(enter_scope(s, CallableArgs(s, function), function), excess))
    ELSE IF len(s) >= CallableArgs(s, function) + 1
         THEN Continue(enter_scope(s, CallableArgs(s, function), function))
         ELSE Panic(s, "assertion failed")

\* A comparison that takes the exact call for an under-application.
MutPartialLessEq(args, required_args) == args <= required_args
\* args.cmp(&required_args) is Ordering::Less
PartialLess(args, required_args) == args < required_args

\* An under-application that leaves the callable slot on the stack.
MutPartialKeepsCallable(args) == args
\* for _ in 0..(args + 1) { stack.pop(); }
PartialPops(args) == args + 1

\* VM::call_function_with_upvars
call_function_with_upvars(s, args, required_args, callable, c) ==
    IF PartialLess(args, required_args)
    THEN LET def == PartialApplicationData(callable, topn(s, args))
             s1 == alloc(s, def, c)
         IN Continue(push(popn(s1, PartialPops(args)), PartialApplication(NewPtr(s))))
    ELSE IF args = required_args
    THEN execute_callable(s, callable, FALSE)
    ELSE LET excess_args_n == args - required_args
             def == DataStruct(0, topn(s, excess_args_n))
             s1 == popn(alloc(s, def, c), excess_args_n)
             offset == len(s1) - required_args - 1
             s2 == insert_slice(s1, offset, <<Data(NewPtr(s))>>)
         IN execute_callable(s2, callable, TRUE)

\* A refusal that also drops the last argument.
MutCannotCallPops(s) == Fail(pop(s), "Cannot call")
\* The last arm of do_call: the value in the callable slot cannot be called.
CannotCall(s) == Fail(s, "Cannot call")

\* VM::do_call
do_call(s, args, c) ==
    LET function_index == len(s) - 1 - args
        f == get(s, function_index)
    IN CASE f.k = "Function" ->
              call_function_with_upvars(s, args, s.heap[f.v].args, CallableExtern(f.v), c)
         [] f.k = "Closure" ->
              call_function_with_upvars(s, args, s.heap[s.heap[f.v].function].args,
                                        CallableClosure(f.v), c)
         [] f.k = "PartialApplication" ->
              LET app == s.heap[f.v]
                  total_args == Len(app.arguments) + args
                  offset == len(s) - args
                  s1 == insert_slice(s, offset, app.arguments)
              IN IF app.function.v \in s.freed
                 THEN Undefined(s)
                 ELSE call_function_with_upvars(s1, total_args,
                                                CallableArgs(s, app.function),
                                                app.function, c)
         [] OTHER -> CannotCall(s)

-----------------------------------------------------------------------------
(* Foreign functions. A host callback sees its arguments in its frame and  *)
(* leaves its result on top of the stack.                                  *)

\* A string in the heap.
StrObject(str) == [kind |-> "Str", s |-> str]

\* The callbacks of the host: "id" returns its argument, "add" adds two
\* integers and fails with an integer on anything else, "fail" fails with a
\* string, "snd" pushes a scratch value and then its second argument.
NativeArgs(id) == IF id \in {"id", "fail"} THEN 1 ELSE 2

Callback(s, id) ==
    CASE id = "id" -> [s |-> push(s, get(s, 0)), status |-> "Ok"]
      [] id = "fail" ->
           [s |-> push(GcAlloc(s, StrObject("boom")), String(NewPtr(s))),
            status |-> "Error"]
      [] id = "snd" -> [s |-> push(push(s, IntVal(0)), get(s, 1)), status |-> "Ok"]
      [] OTHER ->
           IF get(s, 0).k = "Int" /\ get(s, 1).k = "Int"
           THEN [s |-> push(s, IntVal(get(s, 0).v + get(s, 1).v)), status |-> "Ok"]
           ELSE [s |-> push(s, IntVal(0)), status |-> "Error"]

\* The first local taken for the result.
MutExternResultFirst(s) == get(s, 0)
\* let result = stack.pop(): what the bridge takes for the result.
ExternResult(s) == top(s)

\* The generic message for every error value.
MutErrorAlwaysGeneric(s, v) == "Unexpected panic in VM"
\* The message of the error surfaced for the value a failed callback left.
ErrorMessage(s, v) ==
    IF v.k = "String" THEN s.heap[v.v].s ELSE "Unexpected panic in VM"

\* VM::execute_function from the return of the callback, which has left
\* the stack s and returned status.
execute_function_returned(s, status) ==
    LET result == ExternResult(s)
        s1 == popn(s, len(s))
        s2 == exit_scope(s1)
        s3 == push(pop(s2), result)
    IN IF Len(s2.frames) = 0
       THEN Fail(s2, "Poped the last frame in execute_function")
       ELSE IF status = "Ok"
            THEN Continue(s3)
            ELSE Fail(pop(s3), ErrorMessage(s3, top(s3)))

\* VM::execute_function with a callback that does not call the machine.
execute_function(s, function) ==
    LET cb == Callback(s, s.heap[function].id)
    IN execute_function_returned(cb.s, cb.status)

\* A stack still borrowed while the callback runs.
MutStackKept(borrowed) == borrowed
\* drop(stack): the interpreter gives its borrow of the stack back.
DropStack(borrowed) == FALSE

\* A foreign frame taken for a new one every time.
MutNeverCalled(frame) == FALSE
\* stack.frame.instruction_index != 0: this function was already called.
AlreadyCalled(frame) == frame.instruction_index # 0

\* A foreign frame that is not marked.
MutNotMarked(s) == s
\* stack.frame.instruction_index = 1
MarkCalled(s) == set_instruction_index(s, 1)

-----------------------------------------------------------------------------
(* The interpreter: VM::execute and the arms of VM::execute_.              *)

\* The bytecode function of the current closure frame, and where it is.
CurrentFunction(s) == s.heap[s.heap[Frame(s).function.v].function]
AtEnd(s) == s.index >= Len(CurrentFunction(s).instructions)
Instr(s) == CurrentFunction(s).instructions[s.index + 1]

\* VM::execute: one turn of its loop.
execute(s) ==
    LET f == Frame(s).function
    IN CASE f.k = "None" -> Return(s)
         [] f.k = "Extern" ->
              IF f.v \in s.freed THEN Undefined(s)
              ELSE IF AlreadyCalled(Frame(s)) THEN Return(s)
              ELSE execute_function(MarkCalled(s), f.v)
         [] OTHER ->
              IF Len(s.frames) = 0 THEN Return(s)
              ELSE [s EXCEPT !.pc = "instr", !.index = Frame(s).instruction_index]

exec_Push(s, i) == NextInstr(push(s, get(s, i)))
exec_PushInt(s, i) == NextInstr(push(s, IntVal(i)))
exec_PushGlobal(s, i) == NextInstr(push(s, globals[i + 1].value))
exec_PushUpVar(s, i) == NextInstr(push(s, get_upvar(s, i)))

exec_Call(s, args, c) == do_call(set_instruction_index(s, s.index + 1), args, c)

\* A tail call that leaves the frame's callable on the stack.
MutTailAmountKeepsCallable(s, args) == len(s) - args - 1
\* What TailCall removes below the new callable: the locals and the frame's callable.
TailAmount(s, args) == len(s) - args

\* A tail call that does not count the fields of the bundle.
MutTailArgsWithoutExcess(args, fields) == args
\* args += excess.fields.len()
TailArgs(args, fields) == args + Len(fields)

exec_TailCall(s, args0, c) ==
    LET excess == Frame(s).excess
        ex == excess_args(s)
        fields == s.heap[ex.v].fields
        amount == IF excess THEN TailAmount(s, args0) + 1 ELSE TailAmount(s, args0)
        s1 == IF excess THEN pushall(s, fields) ELSE s
        args == IF excess THEN TailArgs(args0, fields) ELSE args0
        s2 == exit_scope(s1)
        end == len(s2) - args - 1
        s3 == remove_range(s2, end - amount, end)
    IN IF excess /\ ex.k # "Data" THEN Panic(s, "Expected excess args")
       ELSE IF Len(s2.frames) = 0 THEN ReturnNone(s2)
       ELSE do_call(s3, args, c)

\* Fields stored last first.
MutFieldsReversed(elems) == [i \in 1..Len(elems) |-> elems[Len(elems) + 1 - i]]
\* Def::initialize: the fields of the new object, from the slice of the stack.
DefFields(elems) == elems

exec_Construct(s, tag, args, c) ==
    LET def == DataStruct(tag, DefFields(topn(s, args)))
        s1 == alloc(s, def, c)
    IN NextInstr(push(popn(s1, args), Data(NewPtr(s))))

exec_GetField(s, i) ==
    LET x == top(s)
    IN IF x.k = "Data"
       THEN IF i < Len(s.heap[x.v].fields)
            THEN NextInstr(push(pop(s), s.heap[x.v].fields[i + 1]))
            ELSE Panic(pop(s), "index out of bounds")
       ELSE Fail(pop(s), "GetField on")

\* Fields pushed last first.
MutSplitReversed(fields) == [i \in 1..Len(fields) |-> fields[Len(fields) + 1 - i]]
\* The order in which Split pushes the fields.
SplitFields(fields) == fields

exec_Split(s) ==
    LET x == top(s)
    IN IF x.k = "Data"
       THEN NextInstr(pushall(pop(s), SplitFields(s.heap[x.v].fields)))
       ELSE Fail(pop(s), "Op Split called on non data type")

exec_Jump(s, i) == [s EXCEPT !.index = i]

exec_CJump(s, i) ==
    IF top(s) = IntVal(0) THEN NextInstr(pop(s)) ELSE [pop(s) EXCEPT !.index = i]

exec_MakeClosure(s, fi, n, c) ==
    LET func == CurrentFunction(s).inner_functions[fi + 1]
        def == ClosureData(func, topn(s, n))
        s1 == alloc(s, def, c)
    IN NextInstr(push(popn(s1, n), Closure(NewPtr(s))))

\* The placeholders of a closure that is filled later: Int(0), n times.
Placeholders(n) == [i \in 1..n |-> IntVal(0)]

\* let args = [Int(0); 128]: the placeholders there are to take
MaxPlaceholders == 128

\* &args[..n] is out of range for more than the array holds.
exec_NewClosure(s, fi, n, c) ==
    LET func == CurrentFunction(s).inner_functions[fi + 1]
        def == ClosureData(func, Placeholders(n))
        s1 == alloc(s, def, c)
    IN IF n > MaxPlaceholders THEN Panic(s, "index out of range")
       ELSE NextInstr(push(s1, Closure(NewPtr(s))))

\* Upvars filled with the value pushed last first.
MutUpvarsReversed(vals) == [i \in 1..Len(vals) |-> vals[Len(vals) + 1 - i]]
\* for var in closure.upvars.iter().rev() { var.set(stack.pop()) }: the last
\* upvar takes the top of the stack, so the values keep their order.
ClosedUpvars(vals) == vals

exec_CloseClosure(s, n) ==
    LET i == len(s) - n - 1
        x == get(s, i)
        k == Len(s.heap[x.v].upvars)
        filled == [s EXCEPT !.heap[x.v].upvars = ClosedUpvars(topn(s, k))]
    IN IF x.k # "Closure" THEN Panic(s, "Expected closure")
       ELSE IF k + 1 > Len(s.values) THEN Panic(s, "pop")
       ELSE NextInstr(popn(filled, k + 1))

\* A field taken at the index after the one asked for.
MutFieldAfter(i) == i + 2
\* array.fields[index as usize]
FieldAt(i) == i + 1

exec_GetIndex(s) ==
    LET ix == top(s)
        array == top(pop(s))
        s1 == popn(s, 2)
    IN IF array.k = "Data" /\ ix.k = "Int"
       THEN IF FieldAt(ix.v) \in 1..Len(s.heap[array.v].fields)
            THEN NextInstr(push(s1, s.heap[array.v].fields[FieldAt(ix.v)]))
            ELSE Panic(s1, "index out of bounds")
       ELSE Fail(s1, "Op GetIndex called on invalid types")

exec_SetIndex(s) ==
    LET value == top(s)
        ix == top(pop(s))
        array == top(popn(s, 2))
        s1 == popn(s, 3)
    IN IF array.k = "Data" /\ ix.k = "Int"
       THEN IF FieldAt(ix.v) \in 1..Len(s.heap[array.v].fields)
            THEN NextInstr([s1 EXCEPT !.heap[array.v].fields[FieldAt(ix.v)] = value])
            ELSE Panic(s1, "index out of bounds")
       ELSE Fail(s1, "Op SetIndex called on invalid types")

IntOps == {"AddInt", "SubtractInt", "MultiplyInt", "DivideInt", "IntLT", "IntEQ"}
FloatOps ==
    {"AddFloat", "SubtractFloat", "MultiplyFloat", "DivideFloat", "FloatLT", "FloatEQ"}
BinOps == IntOps \cup FloatOps

Abs(x) == IF x < 0 THEN 0 - x ELSE x
\* VMInt::div rounds towards zero.
TruncDiv(l, r) ==
    IF (l < 0) = (r < 0) THEN Abs(l) \div Abs(r) ELSE 0 - (Abs(l) \div Abs(r))
\* f64::div: a whole quotient, a fraction l/r, or with r = 0 an infinity or
\* not-a-number.
FloatDiv(l, r) ==
    IF r = 0
    THEN [k |-> "Float", v |-> 0,
          special |-> IF l = 0 THEN "NaN" ELSE IF l > 0 THEN "inf" ELSE "-inf"]
    ELSE IF Abs(l) % Abs(r) = 0 THEN Float(TruncDiv(l, r))
    ELSE [k |-> "Float", v |-> l, over |-> r]
\* bool::push
PushBool(b) == IntVal(IF b THEN 1 ELSE 0)

\* The function an arithmetic instruction hands to binop, applied.
Operation(op, l, r) ==
    CASE op = "AddInt" -> IntVal(l + r)
      [] op = "SubtractInt" -> IntVal(l - r)
      [] op = "MultiplyInt" -> IntVal(l * r)
      [] op = "DivideInt" -> IntVal(TruncDiv(l, r))
      [] op = "IntLT" -> PushBool(l < r)
      [] op = "IntEQ" -> PushBool(l = r)
      [] op = "AddFloat" -> Float(l + r)
      [] op = "SubtractFloat" -> Float(l - r)
      [] op = "MultiplyFloat" -> Float(l * r)
      [] op = "DivideFloat" -> FloatDiv(l, r)
      [] op = "FloatLT" -> PushBool(l < r)
      [] OTHER -> PushBool(l = r)

\* The operands handed over in the order they are popped.
MutOperandsSwapped(op, l, r) == Operation(op, r, l)
\* let result = f(l, r)
BinopResult(op, l, r) == Operation(op, l, r)

\* binop: r is popped first, then l; a division of integers by zero panics.
binop(s, op) ==
    LET r == top(s)
        l == top(pop(s))
        kind == IF op \in IntOps THEN "Int" ELSE "Float"
    IN IF l.k = kind /\ r.k = kind
       THEN IF op = "DivideInt" /\ r.v = 0
            THEN Panic(popn(s, 2), "attempt to divide by zero")
            ELSE NextInstr(push(popn(s, 2), BinopResult(op, l.v, r.v)))
       ELSE Panic(popn(s, 2), "binop")

\* A return that leaves the bundle where it is.
MutExcessKeepsBundle(s, result, fields) == pushall(push(s, result), fields)
\* The bundle is popped, the result pushed and each field of the bundle after it.
PushExcess(s, result, fields) == pushall(push(pop(s), result), fields)

\* The end of execute_: the frame returns.
exec_return(s, c) ==
    LET result == top(s)
        s1 == pop(s)
        n == len(s1)
        frame_has_excess == Frame(s).excess
        s2 == exit_scope(s1)
        s3 == popn(s2, n + 1)
        x == top(s3)
        fields == s.heap[x.v].fields
    IN IF Len(s2.frames) = 0 THEN Panic(s2, "Stack")
       ELSE IF frame_has_excess
            THEN IF x.k = "Data"
                 THEN do_call(PushExcess(s3, result, fields), Len(fields), c)
                 ELSE Panic(pop(s3), "Expected excess arguments")
            ELSE Continue(push(s3, result))

\* VM::execute_: the instruction at index, or the return.
execute_(s, c) ==
    IF AtEnd(s) THEN exec_return(s, c)
    ELSE LET i == Instr(s)
         IN CASE i.op = "Push" -> exec_Push(s, i.a)
              [] i.op = "PushInt" -> exec_PushInt(s, i.a)
              [] i.op = "PushGlobal" -> exec_PushGlobal(s, i.a)
              [] i.op = "PushUpVar" -> exec_PushUpVar(s, i.a)
              [] i.op = "Call" -> exec_Call(s, i.a, c)
              [] i.op = "TailCall" -> exec_TailCall(s, i.a, c)
              [] i.op = "Construct" -> exec_Construct(s, i.a, i.b, c)
              [] i.op = "GetField" -> exec_GetField(s, i.a)
              [] i.op = "Split" -> exec_Split(s)
              [] i.op = "Jump" -> exec_Jump(s, i.a)
              [] i.op = "CJump" -> exec_CJump(s, i.a)
              [] i.op = "MakeClosure" -> exec_MakeClosure(s, i.a, i.b, c)
              [] i.op = "NewClosure" -> exec_NewClosure(s, i.a, i.b, c)
              [] i.op = "CloseClosure" -> exec_CloseClosure(s, i.a)
              [] i.op = "GetIndex" -> exec_GetIndex(s)
              [] i.op = "SetIndex" -> exec_SetIndex(s)
              [] OTHER -> binop(s, i.op)

\* VM::call_function: do_call, then execute.
call_function(s, args, c) == do_call(s, args, c)

\* One step of a call in progress, and a call run to its end without the
\* collector running.
Step(s, c) == IF s.pc = "execute" THEN execute(s) ELSE execute_(s, c)

Running(s) == s.pc \in {"execute", "instr"}

\* The interpreter run to the point where control is back with the host.
RECURSIVE Run(_)
Run(s) == IF Running(s) THEN Run(Step(s, FALSE)) ELSE s

-----------------------------------------------------------------------------
(* The global environment.                                                 *)

Global(id, typ, value) == [id |-> id, typ |-> typ, value |-> value]

NoNames == [x \in {} |-> 0]

\* Every name bound to the first slot.
MutIndexFirst(g) == 0
\* The index set_global binds the name to.
SetGlobalIndex(g) == Len(g)

\* GlobalVMState::set_global
set_global(env, id, typ, value) ==
    IF id \in DOMAIN env.names
    THEN [env EXCEPT !.st = "err"]
    ELSE [globals |-> Append(env.globals, Global(id, typ, value)),
          names |-> (id :> SetGlobalIndex(env.globals)) @@ env.names,
          st |-> "ok"]

RECURSIVE new_function(_, _)
RECURSIVE new_functions(_, _, _)
\* BytecodeFunction::new over the inner functions, in order.
new_functions(s, fs, acc) ==
    IF fs = <<>> THEN [s |-> s, ptrs |-> acc]
    ELSE LET r == new_function(s, Head(fs))
         IN new_functions(r.s, Tail(fs), Append(acc, r.ptr))

\* GlobalVMState::new_function (BytecodeFunction::new)
new_function(s, f) ==
    LET r == new_functions(s, f.inner_functions, <<>>)
    IN [s |-> GcAlloc(r.s, BytecodeFunction(f.id, f.args, f.instructions, r.ptrs)),
        ptr |-> NewPtr(r.s)]

\* The name bound to the slot after the new one.
MutIndexPastEnd(g) == Len(g) + 1
\* The index add_bytecode binds the name to.
AddBytecodeIndex(g) == Len(g)

\* VM::add_bytecode: no test of the name.
add_bytecode(s, env, name, typ, args, instructions, c) ==
    LET f == new_function(s, [id |-> name, args |-> args,
                              instructions |-> instructions, inner_functions |-> <<>>])
        s1 == alloc(f.s, ClosureData(f.ptr, <<>>), c)
    IN [s |-> s1,
        globals |-> Append(env.globals, Global(name, typ, Closure(NewPtr(f.s)))),
        names |-> (name :> AddBytecodeIndex(env.globals)) @@ env.names,
        st |-> "ok"]

\* A compiled function bound as a global closure: new_function, alloc, set_global.
load_function(s, env, f, typ, c) ==
    LET r == new_function(s, f)
        s1 == alloc(r.s, ClosureData(r.ptr, <<>>), c)
        e == set_global(env, f.id, typ, Closure(NewPtr(r.s)))
    IN [s |-> s1, globals |-> e.globals, names |-> e.names, st |-> e.st]

\* Pushable::push: a host value marshalled onto the stack, with its status.
\* An integer is pushed as it is, a host function is allocated as an extern
\* function, a failed result pushes its message and reports Status::Error.
PushablePush(s, p, c) ==
    CASE p.k = "Native" ->
           [s |-> push(alloc(s, ExternFunction(p.id, NativeArgs(p.id)), c),
                       Function(NewPtr(s))),
            status |-> "Ok"]
      [] p.k = "Global" -> [s |-> push(s, globals[p.v + 1].value), status |-> "Ok"]
      [] p.k = "Failed" -> [s |-> push(s, IntVal(p.v)), status |-> "Error"]
      [] OTHER -> [s |-> push(s, p), status |-> "Ok"]

\* VM::define_global
define_global(s, env, name, value, c) ==
    IF name \in DOMAIN env.names
    THEN [s |-> s, globals |-> env.globals, names |-> env.names, st |-> "err"]
    ELSE LET p == PushablePush(s, value, c)
             v == top(p.s)
             s1 == pop(p.s)
             e == set_global(env, name, value.k, v)
         IN IF p.status = "Error"
            THEN [s |-> s1, globals |-> env.globals, names |-> env.names, st |-> "err"]
            ELSE [s |-> s1, globals |-> e.globals, names |-> e.names, st |-> e.st]

Env == [globals |-> globals, names |-> names, st |-> "ok"]

-----------------------------------------------------------------------------
(* The collector and the rooting API, as the host calls them.              *)

\* VM::collect
collect(s) == GcCollect(s, RootsTraverse(s))

\* Everything the root set reaches through the pointers the objects hold.
Reachable(s) == ReachFrom(s.heap, RootsTraverse(s), {})

-----------------------------------------------------------------------------
(* The registry of types.                                                  *)

UnitType == [k |-> "Unit"]
BoolType == [k |-> "Bool"]
IntType == [k |-> "Int"]
FloatType == [k |-> "Float"]
StringType == [k |-> "String"]
CharType == [k |-> "Char"]
\* Type::data(TypeConstructor::Data(n), arg_types)
DataType(n, arg_types) == [k |-> "Data", id |-> n, args |-> arg_types]
\* Type::variants(vec![(n, typ)])
Variants(n, typ) == [k |-> "Variants", variants |-> <<[name |-> n, typ |-> typ]>>]
Alias(n, args, typ) == [name |-> n, args |-> args, typ |-> typ]

\* type_infos.id_to_type.contains_key(name)
Registered(reg, name) == name \in DOMAIN reg.type_infos.id_to_type

\* GlobalVMState::register_type::<T>; try_insert refuses a host type id
\* that is already there, and expect panics on the refusal.
register_type(reg, T, name, args) ==
    IF Registered(reg, name) THEN [reg EXCEPT !.st = "err"]
    ELSE LET typ == DataType(name, args)
             ctor == Variants(name, typ)
         IN IF T \in DOMAIN reg.typeids THEN [reg EXCEPT !.st = "panic"]
            ELSE [typeids |-> (T :> typ) @@ reg.typeids,
                  type_infos |->
                    [id_to_type |-> (name :> Alias(name, args, ctor))
                                      @@ reg.type_infos.id_to_type,
                     type_to_id |-> (ctor :> typ) @@ reg.type_infos.type_to_id],
                  st |-> "ok"]

\* TypeInfos::new and the six try_insert of add_types
NoTypes ==
    [type_infos |-> [id_to_type |-> [x \in {} |-> 0], type_to_id |-> [x \in {} |-> 0]],
     typeids |-> [id \in {"()", "bool", "VMInt", "f64", "String", "char"} |->
                    CASE id = "()" -> UnitType [] id = "bool" -> BoolType
                      [] id = "VMInt" -> IntType [] id = "f64" -> FloatType
                      [] id = "String" -> StringType [] OTHER -> CharType],
     st |-> "ok"]

\* GlobalVMState::add_types
add_types ==
    register_type(register_type(NoTypes, "Lazy", "Lazy", <<"a">>), "Thread", "Thread", <<>>)

-----------------------------------------------------------------------------
(* Applying a state computed by an operator.                               *)

Apply(s) ==
    /\ values' = s.values
    /\ frames' = s.frames
    /\ heap' = s.heap
    /\ freed' = s.freed
    /\ pc' = s.pc
    /\ index' = s.index
    /\ ret' = s.ret

\* VM::new
VMNew ==
    /\ heap = <<ThreadObject>>
    /\ freed = {}
    /\ values = <<>>
    /\ frames = <<[offset |-> 0, instruction_index |-> 0, function |-> None,
                   excess |-> FALSE]>>
    /\ globals = <<>>
    /\ names = NoNames
    /\ roots = <<1>>
    /\ rooted_values = <<>>
    /\ type_infos = add_types.type_infos
    /\ typeids = add_types.typeids
    /\ pc = "host"
    /\ index = 0
    /\ ret = [op |-> "new", st |-> "ok", msg |-> ""]

-----------------------------------------------------------------------------
(* The program the host loads, and the calls it makes.                     *)

CompiledFunction(id, args, instructions, inner_functions) ==
    [id |-> id, args |-> args, instructions |-> instructions,
     inner_functions |-> inner_functions]

\* Global 0: \x y z -> x + y + z
Add3 == CompiledFunction("add3", 3, <<Push(0), Push(1), AddInt, Push(2), AddInt>>, <<>>)
\* Global 1: \x -> x + 1
Inc == CompiledFunction("inc", 1, <<Push(0), PushInt(1), AddInt>>, <<>>)
\* Global 2: \x -> (\y -> x + y)
MkAdd ==
    CompiledFunction("mkadd", 1, <<Push(0), MakeClosure(0, 1)>>,
        <<CompiledFunction("addx", 1, <<PushUpVar(0), Push(0), AddInt>>, <<>>)>>)
\* Global 3: loop n = if n == 0 then inc else loop (n - 1), by a tail call
Loop ==
    CompiledFunction("loop", 1,
        <<Push(0), CJump(4), PushGlobal(1), Jump(9),
          PushGlobal(3), Push(0), PushInt(1), SubtractInt, TailCall(1)>>, <<>>)
\* Global 4: \x -> (3).0, a field access on an integer
Bad == CompiledFunction("bad", 1, <<PushInt(3), GetField(0)>>, <<>>)
\* Global 5: \x -> bad x + 1
Outer ==
    CompiledFunction("outer", 1,
        <<PushGlobal(4), Push(0), Call(1), PushInt(1), AddInt>>, <<>>)
\* Global 6: \x -> add3 x, a partial application built by the bytecode
Pap == CompiledFunction("pap", 1, <<PushGlobal(0), Push(0), Call(1)>>, <<>>)
\* Global 7: \x -> 3 x, a call of an integer
CallInt == CompiledFunction("callint", 1, <<PushInt(3), Push(0), Call(1)>>, <<>>)
\* Global 8: \x y -> 1 + snd x y, snd the foreign function bound as global 9
CallSnd ==
    CompiledFunction("callsnd", 2,
        <<PushInt(1), PushGlobal(9), Push(0), Push(1), Call(2), AddInt>>, <<>>)

Programs == <<Add3, Inc, MkAdd, Loop, Bad, Outer, Pap, CallInt, CallSnd>>

GlobalRef(i) == [k |-> "Global", v |-> i]
Native(id) == [k |-> "Native", v |-> 0, id |-> id]

\* What the host calls: a callable and the arguments it is applied to.
Entries ==
    { [f |-> GlobalRef(0), xs |-> <<IntVal(1), IntVal(2), IntVal(3)>>],
      [f |-> GlobalRef(2), xs |-> <<IntVal(10), IntVal(5)>>],
      [f |-> GlobalRef(3), xs |-> <<IntVal(2), IntVal(7)>>],
      [f |-> GlobalRef(5), xs |-> <<IntVal(1)>>],
      [f |-> GlobalRef(6), xs |-> <<IntVal(1), IntVal(2), IntVal(3)>>],
      [f |-> Native("add"), xs |-> <<IntVal(3), IntVal(4)>>],
      [f |-> Native("add"), xs |-> <<IntVal(3), IntVal(4), IntVal(5)>>],
      [f |-> Native("id"), xs |-> <<GlobalRef(1), IntVal(7)>>],
      [f |-> GlobalRef(1), xs |-> <<GlobalRef(0)>>],
      [f |-> GlobalRef(7), xs |-> <<IntVal(1)>>],
      [f |-> IntVal(5), xs |-> <<IntVal(1), IntVal(2)>>],
      [f |-> Float(1), xs |-> <<IntVal(1)>>],
      [f |-> GlobalRef(8), xs |-> <<IntVal(4), IntVal(6)>>],
      [f |-> Native("snd"), xs |-> <<IntVal(4), IntVal(6)>>],
      [f |-> Native("fail"), xs |-> <<IntVal(1), IntVal(2)>>],
      [f |-> Native("add"), xs |-> <<GlobalRef(1), IntVal(7)>>] }

\* What the host calls after a call has failed.
Again == {e \in Entries : e.f = GlobalRef(0)}

NoEntry == [f |-> None, xs |-> <<>>]

ArgValue(d) == IF d.k = "Global" THEN globals[d.v + 1].value ELSE d
ArgValues(xs, from, n) == [i \in 1..n |-> ArgValue(xs[from + i])]

\* The host pushes the callable and n arguments and calls call_function.
HostCallState(s, e, n, c) ==
    call_function(pushall(PushablePush(s, e.f, c).s, ArgValues(e.xs, 0, n)), n, c)

\* The host pushes n more arguments over the result and calls call_function.
HostApplyState(s, e, done, n, c) ==
    call_function(pushall(s, ArgValues(e.xs, done, n)), n, c)

-----------------------------------------------------------------------------
(* The actions of the host.                                                *)

Loaded == Len(globals) = Len(Programs) + 1

\* add_bytecode of the next function of the program
AddBytecode ==
    /\ pc = "host" /\ Len(globals) < Len(Programs)
    /\ LET f == Programs[Len(globals) + 1]
       IN /\ f.inner_functions = <<>>
          /\ \E c \in BOOLEAN :
               LET r == add_bytecode(State, Env, f.id, "fn", f.args, f.instructions, c)
               IN /\ Apply([r.s EXCEPT !.ret = [op |-> "add_bytecode", st |-> r.st,
                                                msg |-> f.id]])
                  /\ globals' = r.globals
                  /\ names' = r.names
    /\ UNCHANGED <<roots, rooted_values, type_infos, typeids, host>>

\* a compiled function with inner functions, bound as a global
LoadFunction ==
    /\ pc = "host" /\ Len(globals) < Len(Programs)
    /\ LET f == Programs[Len(globals) + 1]
       IN /\ f.inner_functions # <<>>
          /\ \E c \in BOOLEAN :
               LET r == load_function(State, Env, f, "fn", c)
               IN /\ Apply([r.s EXCEPT !.ret = [op |-> "set_global", st |-> r.st,
                                                msg |-> f.id]])
                  /\ globals' = r.globals
                  /\ names' = r.names
    /\ UNCHANGED <<roots, rooted_values, type_infos, typeids, host>>

\* define_global of the foreign function snd, after the bytecode
DefineNative ==
    /\ pc = "host" /\ Len(globals) = Len(Programs)
    /\ \E c \in BOOLEAN :
         LET r == define_global(State, Env, "snd", Native("snd"), c)
         IN /\ Apply([r.s EXCEPT !.ret = [op |-> "define_global", st |-> r.st,
                                          msg |-> "snd"]])
            /\ globals' = r.globals
            /\ names' = r.names
    /\ UNCHANGED <<roots, rooted_values, type_infos, typeids, host>>

\* call_function on a callable and its first n arguments
HostCall ==
    /\ pc = "host" /\ Loaded
    /\ \E e \in Entries, c \in BOOLEAN :
         \E n \in 1..Len(e.xs) :
           /\ \/ host.chains = 0
              \/ host.chains = 1 /\ ret.op = "call" /\ ret.st = "err" /\ e \in Again
           /\ LET r == HostCallState(State, e, n, c)
              IN /\ Apply(r)
                 /\ host' = [host EXCEPT !.chains = @ + 1, !.e = e, !.done = n,
                                         !.chunks = 1, !.last = "call", !.s0 = State,
                                         !.clean = IF host.chains = 0 THEN State ELSE @,
                                         !.depth = Len(frames),
                                         !.entry = [depth |-> Len(r.frames),
                                                    height |-> Len(r.values)]]
    /\ UNCHANGED <<globals, names, roots, rooted_values, type_infos, typeids>>

\* call_function on the result of the last call and the next n arguments
HostApply ==
    /\ pc = "host" /\ host.chains >= 1
    /\ ret.op = "call" /\ ret.st = "ok"
    /\ host.done < Len(host.e.xs)
    /\ \E c \in BOOLEAN :
         \E n \in 1..(Len(host.e.xs) - host.done) :
           /\ Apply(HostApplyState(State, host.e, host.done, n, c))
           /\ host' = [host EXCEPT !.done = @ + n, !.chunks = @ + 1,
                                   !.last = "call"]
    /\ UNCHANGED <<globals, names, roots, rooted_values, type_infos, typeids>>

\* VM::collect
Collect ==
    /\ pc = "host" /\ Loaded
    /\ Apply(collect(State))
    /\ host' = [host EXCEPT !.last = "collect"]
    /\ UNCHANGED <<globals, names, roots, rooted_values, type_infos, typeids>>

\* VM::root_value on the value on top of the stack
RootValue ==
    /\ pc = "host" /\ Loaded
    /\ Len(values) > 0 /\ Len(rooted_values) < MaxRooted
    /\ rooted_values' = Append(rooted_values, values[Len(values)])
    /\ UNCHANGED <<type_infos, typeids, heap, freed, values, frames, globals, names, roots, pc, index,
                   ret, host>>

\* Drop of a RootedValue
DropRootedValue ==
    /\ pc = "host" /\ Len(rooted_values) > 0
    /\ rooted_values' = SubSeq(rooted_values, 1, Len(rooted_values) - 1)
    /\ UNCHANGED <<type_infos, typeids, heap, freed, values, frames, globals, names, roots, pc, index,
                   ret, host>>

\* VM::pop of the result of a finished call
HostPop ==
    /\ pc = "host" /\ host.chains >= 1
    /\ ret.op = "call" /\ ret.st = "ok" /\ host.last = "call"
    /\ host.done = Len(host.e.xs)
    /\ len(State) > 0
    /\ Apply(pop(State))
    /\ host' = [host EXCEPT !.last = "pop"]
    /\ UNCHANGED <<globals, names, roots, rooted_values, type_infos, typeids>>

-----------------------------------------------------------------------------
(* The actions of the interpreter.                                         *)

Rest == <<globals, names, roots, rooted_values, type_infos, typeids, host>>

InFrame(k) == pc = "execute" /\ Frame(State).function.k = k
AtInstr(op) == pc = "instr" /\ ~AtEnd(State) /\ Instr(State).op = op

ExecuteHost == InFrame("None") /\ Apply(execute(State)) /\ UNCHANGED Rest
ExecuteExtern == InFrame("Extern") /\ Apply(execute(State)) /\ UNCHANGED Rest
ExecuteClosure == InFrame("Closure") /\ Apply(execute(State)) /\ UNCHANGED Rest

StepPush ==
    AtInstr("Push") /\ Apply(exec_Push(State, Instr(State).a)) /\ UNCHANGED Rest
StepPushInt ==
    AtInstr("PushInt") /\ Apply(exec_PushInt(State, Instr(State).a)) /\ UNCHANGED Rest
StepPushGlobal ==
    AtInstr("PushGlobal") /\ Apply(exec_PushGlobal(State, Instr(State).a))
                          /\ UNCHANGED Rest
StepPushUpVar ==
    AtInstr("PushUpVar") /\ Apply(exec_PushUpVar(State, Instr(State).a))
                         /\ UNCHANGED Rest
StepCall ==
    /\ AtInstr("Call")
    /\ \E c \in BOOLEAN : Apply(exec_Call(State, Instr(State).a, c))
    /\ UNCHANGED Rest
StepTailCall ==
    /\ AtInstr("TailCall")
    /\ \E c \in BOOLEAN : Apply(exec_TailCall(State, Instr(State).a, c))
    /\ UNCHANGED Rest
StepConstruct ==
    /\ AtInstr("Construct")
    /\ \E c \in BOOLEAN :
         Apply(exec_Construct(State, Instr(State).a, Instr(State).b, c))
    /\ UNCHANGED Rest
StepGetField ==
    AtInstr("GetField") /\ Apply(exec_GetField(State, Instr(State).a)) /\ UNCHANGED Rest
StepSplit == AtInstr("Split") /\ Apply(exec_Split(State)) /\ UNCHANGED Rest
StepJump == AtInstr("Jump") /\ Apply(exec_Jump(State, Instr(State).a)) /\ UNCHANGED Rest
StepCJump ==
    AtInstr("CJump") /\ Apply(exec_CJump(State, Instr(State).a)) /\ UNCHANGED Rest
StepMakeClosure ==
    /\ AtInstr("MakeClosure")
    /\ \E c \in BOOLEAN :
         Apply(exec_MakeClosure(State, Instr(State).a, Instr(State).b, c))
    /\ UNCHANGED Rest
StepNewClosure ==
    /\ AtInstr("NewClosure")
    /\ \E c \in BOOLEAN :
         Apply(exec_NewClosure(State, Instr(State).a, Instr(State).b, c))
    /\ UNCHANGED Rest
StepCloseClosure ==
    AtInstr("CloseClosure") /\ Apply(exec_CloseClosure(State, Instr(State).a))
                            /\ UNCHANGED Rest
StepGetIndex == AtInstr("GetIndex") /\ Apply(exec_GetIndex(State)) /\ UNCHANGED Rest
StepSetIndex == AtInstr("SetIndex") /\ Apply(exec_SetIndex(State)) /\ UNCHANGED Rest
StepBinop ==
    /\ pc = "instr" /\ ~AtEnd(State) /\ Instr(State).op \in BinOps
    /\ Apply(binop(State, Instr(State).op))
    /\ UNCHANGED Rest
StepReturn ==
    /\ pc = "instr" /\ AtEnd(State)
    /\ \E c \in BOOLEAN : Apply(exec_return(State, c))
    /\ UNCHANGED Rest

-----------------------------------------------------------------------------
(* The machine running a program: the host loads the program, makes a call *)
(* (in one go or an argument group at a time), may collect and root, and   *)
(* after a failed call makes one more call.                                *)

NoSnapshot == [pc |-> "none"]

Init ==
    /\ VMNew
    /\ host = [chains |-> 0, e |-> NoEntry, done |-> 0, chunks |-> 0, last |-> "new",
               s0 |-> NoSnapshot, clean |-> NoSnapshot, depth |-> 0,
               entry |-> [depth |-> 0, height |-> 0]]

Next ==
    \/ AddBytecode \/ LoadFunction \/ DefineNative
    \/ HostCall \/ HostApply \/ HostPop
    \/ Collect \/ RootValue \/ DropRootedValue
    \/ ExecuteHost \/ ExecuteExtern \/ ExecuteClosure
    \/ StepPush \/ StepPushInt \/ StepPushGlobal \/ StepPushUpVar
    \/ StepCall \/ StepTailCall \/ StepGetField
    \/ StepJump \/ StepCJump \/ StepMakeClosure \/ StepBinop \/ StepReturn

Spec == Init /\ [][Next]_vars

-----------------------------------------------------------------------------
(* The data instructions: the host binds a function that builds a data     *)
(* value from the values it pushes and reads one field, or a function that *)
(* splits its argument and builds it again, and calls it.                  *)

FieldValues == {IntVal(1), IntVal(2)}

\* \x1 .. xn -> field i of (t x1 .. xn)
GetFieldProgram(t, n, i) ==
    CompiledFunction("field", n,
        [k \in 1..n |-> Push(k - 1)] \o <<Construct(t, n), GetField(i)>>, <<>>)

\* \d -> case d of t x1 .. xn -> t x1 .. xn
SplitProgram(t, n) ==
    CompiledFunction("split", 1, <<Push(0), Split, Construct(t, n)>>, <<>>)

\* VM::new_data
new_data(s, tag, fields) == GcAlloc(s, DataStruct(tag, DefFields(fields)))

RECURSIVE ValueEq(_, _, _, _)
\* An equality of data values that does not look at the tag.
MutDataEqIgnoresTag(s, a, b, d) ==
    /\ Len(a.fields) = Len(b.fields)
    /\ \A i \in 1..Len(a.fields) : ValueEq(s, a.fields[i], b.fields[i], d)
\* DataStruct::eq
DataStructEq(s, a, b, d) ==
    /\ a.tag = b.tag
    /\ Len(a.fields) = Len(b.fields)
    /\ \A i \in 1..Len(a.fields) : ValueEq(s, a.fields[i], b.fields[i], d)
\* Userdata_::eq
UserdataEq(a, b) == a = b
\* Thread::eq
ThreadEq(a, b) == a = b
\* ClosureData::eq, ExternFunction::eq, PartialApplicationData::eq
NeverEq(a, b) == FALSE
\* The equality of lazy values
LazyEq(a, b) == FALSE
\* The derived equality of Value: the same variant and equal payloads, a
\* pointer payload compared by the equality of what it points to. d bounds
\* the nesting that is followed.
ValueEq(s, x, y, d) ==
    IF x.k # y.k THEN FALSE
    ELSE CASE x.k \in {"Int", "Float"} -> x.v = y.v
           [] x.k = "String" -> s.heap[x.v].s = s.heap[y.v].s
           [] x.k = "Data" ->
                IF d > 0 THEN DataStructEq(s, s.heap[x.v], s.heap[y.v], d - 1)
                ELSE x = y
           [] x.k = "Userdata" -> UserdataEq(x.v, y.v)
           [] x.k = "Thread" -> ThreadEq(x.v, y.v)
           [] x.k = "Lazy" -> LazyEq(x.v, y.v)
           [] OTHER -> NeverEq(x.v, y.v)

\* add_bytecode of the field function
LoadGetField ==
    /\ pc = "host" /\ Len(globals) = 0
    /\ \E t \in 0..MaxTag, n \in 1..MaxFields, c \in BOOLEAN :
         \E i \in 0..(n - 1) :
           LET f == GetFieldProgram(t, n, i)
               r == add_bytecode(State, Env, f.id, "fn", f.args, f.instructions, c)
           IN /\ Apply([r.s EXCEPT !.ret = [op |-> "add_bytecode", st |-> r.st,
                                            msg |-> f.id]])
              /\ globals' = r.globals
              /\ names' = r.names
              /\ host' = [host EXCEPT !.last = "add_bytecode", !.t = t, !.n = n,
                                      !.i = i]
    /\ UNCHANGED <<roots, rooted_values, type_infos, typeids>>

\* add_bytecode of the split function
LoadSplit ==
    /\ pc = "host" /\ Len(globals) = 0
    /\ \E t \in 0..MaxTag, n \in 0..MaxFields, c \in BOOLEAN :
         LET f == SplitProgram(t, n)
             r == add_bytecode(State, Env, f.id, "fn", f.args, f.instructions, c)
         IN /\ Apply([r.s EXCEPT !.ret = [op |-> "add_bytecode", st |-> r.st,
                                          msg |-> f.id]])
            /\ globals' = r.globals
            /\ names' = r.names
            /\ host' = [host EXCEPT !.last = "add_bytecode", !.t = t, !.n = n]
    /\ UNCHANGED <<roots, rooted_values, type_infos, typeids>>

\* call_function on the field function and n values
CallGetField ==
    /\ pc = "host" /\ host.last = "add_bytecode" /\ globals[1].id = "field"
    /\ \E xs \in [1..host.n -> FieldValues], c \in BOOLEAN :
         LET r == call_function(pushall(push(State, globals[1].value), xs), host.n, c)
         IN /\ Apply(r)
            /\ host' = [host EXCEPT !.last = "call", !.xs = xs, !.before = r.values]
    /\ UNCHANGED <<globals, names, roots, rooted_values, type_infos, typeids>>

\* new_data of a value with tag t and n fields, one of which may be a data
\* value itself, and call_function on the split function and that value
CallSplit ==
    /\ pc = "host" /\ host.last = "add_bytecode" /\ globals[1].id = "split"
    /\ LET s1 == new_data(State, 0, <<IntVal(1)>>)
           inner == Data(NewPtr(State))
       IN \E xs \in [1..host.n -> FieldValues \cup {inner}], c \in BOOLEAN :
            LET s2 == new_data(s1, host.t, xs)
                d == Data(NewPtr(s1))
                r == call_function(push(push(s2, globals[1].value), d), 1, c)
            IN /\ Apply(r)
               /\ host' = [host EXCEPT !.last = "call", !.xs = xs, !.d = d,
                                       !.before = r.values]
    /\ UNCHANGED <<globals, names, roots, rooted_values, type_infos, typeids>>

InitData ==
    /\ VMNew
    /\ host = [last |-> "new", t |-> 0, n |-> 0, i |-> 0, xs |-> <<>>, d |-> None,
               before |-> <<>>]

NextData ==
    \/ LoadGetField \/ LoadSplit \/ CallGetField \/ CallSplit
    \/ ExecuteHost \/ ExecuteClosure
    \/ StepPush \/ StepConstruct \/ StepGetField \/ StepSplit \/ StepReturn

SpecData == InitData /\ [][NextData]_vars

-----------------------------------------------------------------------------
(* The registry of globals: the host calls set_global, define_global and   *)
(* add_bytecode with names from a small set, in any order.                 *)

GlobalNames == {"a", "b"}
SetValues == {IntVal(0), IntVal(1)}
DefineValues == {IntVal(1), Native("id"), [k |-> "Failed", v |-> 0]}

\* What the host did last, and the registry and the stack before it.
Before(op, name, status) ==
    [last |-> op, name |-> name, bound |-> name \in DOMAIN names, status |-> status,
     pre |-> [globals |-> globals, names |-> names, values |-> values]]

\* VM::push
HostPush ==
    /\ pc = "host" /\ Len(values) < MaxPushed
    /\ Apply(push(State, IntVal(7)))
    /\ host' = Before("push", "", "Ok")
    /\ UNCHANGED <<globals, names, roots, rooted_values, type_infos, typeids>>

SetGlobal ==
    /\ pc = "host" /\ Len(globals) < MaxGlobals
    /\ \E id \in GlobalNames, v \in SetValues :
         LET r == set_global(Env, id, "Int", v)
         IN /\ globals' = r.globals
            /\ names' = r.names
            /\ ret' = [op |-> "set_global", st |-> r.st, msg |-> id]
            /\ host' = Before("set_global", id, "Ok")
    /\ UNCHANGED <<heap, freed, values, frames, pc, index, roots, rooted_values, type_infos, typeids>>

DefineGlobal ==
    /\ pc = "host" /\ Len(globals) < MaxGlobals
    /\ \E name \in GlobalNames, v \in DefineValues, c \in BOOLEAN :
         LET r == define_global(State, Env, name, v, c)
         IN /\ Apply([r.s EXCEPT !.ret = [op |-> "define_global", st |-> r.st,
                                          msg |-> name]])
            /\ globals' = r.globals
            /\ names' = r.names
            /\ host' = Before("define_global", name, PushablePush(State, v, c).status)
    /\ UNCHANGED <<roots, rooted_values, type_infos, typeids>>

AddBytecodeNamed ==
    /\ pc = "host" /\ Len(globals) < MaxGlobals
    /\ \E name \in GlobalNames, c \in BOOLEAN :
         LET r == add_bytecode(State, Env, name, "fn", 1, <<Push(0)>>, c)
         IN /\ Apply([r.s EXCEPT !.ret = [op |-> "add_bytecode", st |-> r.st,
                                          msg |-> name]])
            /\ globals' = r.globals
            /\ names' = r.names
            /\ host' = Before("add_bytecode", name, "Ok")
    /\ UNCHANGED <<roots, rooted_values, type_infos, typeids>>

InitGlobals ==
    /\ VMNew
    /\ host = [last |-> "new", name |-> "", bound |-> FALSE, status |-> "Ok",
               pre |-> [globals |-> <<>>, names |-> NoNames, values |-> <<>>]]

NextGlobals == HostPush \/ SetGlobal \/ DefineGlobal \/ AddBytecodeNamed

SpecGlobals == InitGlobals /\ [][NextGlobals]_vars

-----------------------------------------------------------------------------
(* The rooting API: the host allocates strings and userdata, pins values   *)
(* and objects, copies a handle, and releases the handles last one first.  *)
(* host.handles lists the handles that are alive, in the order they were   *)
(* made.                                                                   *)

UserdataTypes == {"A", "B"}
RootableValues == {IntVal(1), IntVal(2)}

\* Userdata_::new: a boxed host value of a host type
UserdataObject(type) == [kind |-> "Userdata", type |-> type]

ValueHandle(v) == [kind |-> "RootedValue", v |-> v, clone |-> FALSE]
ObjectHandle(p) == [kind |-> "Root", v |-> p, clone |-> FALSE]

\* RootedValue::drop and Root::drop: the last entry of the stack is popped.
DropHandle(h, m) ==
    IF h.kind = "RootedValue"
    THEN [m EXCEPT !.rooted_values = SubSeq(@, 1, Len(@) - 1)]
    ELSE [m EXCEPT !.roots = SubSeq(@, 1, Len(@) - 1)]

\* The objects the host can still hold a pointer to.
Live == (1..Len(heap)) \ freed

\* an allocation by the host of a string or of a userdata
NewObject ==
    /\ pc = "host" /\ Len(heap) < 1 + MaxObjects
    /\ \E o \in {StrObject("s")} \cup {UserdataObject(t) : t \in UserdataTypes} :
         Apply(GcAlloc(State, o))
    /\ UNCHANGED <<globals, names, roots, rooted_values, type_infos, typeids, host>>

\* VM::root_value
RootsRootValue ==
    /\ pc = "host" /\ Len(host.handles) < MaxHandles
    /\ \E v \in RootableValues
              \cup {Userdata(p) : p \in {q \in Live : heap[q].kind = "Userdata"}}
              \cup {String(p) : p \in {q \in Live : heap[q].kind = "Str"}} :
         /\ rooted_values' = Append(rooted_values, v)
         /\ host' = [host EXCEPT !.handles = Append(@, ValueHandle(v)), !.last = "root_value"]
    /\ UNCHANGED <<heap, freed, values, frames, globals, names, roots, pc, index, ret,
                   type_infos, typeids>>

\* VM::root: Some(handle) when the userdata is of the requested type, else None
RootsRoot ==
    /\ pc = "host" /\ Len(host.handles) < MaxHandles
    /\ \E p \in Live, t \in UserdataTypes :
         /\ heap[p].kind = "Userdata"
         /\ IF heap[p].type = t
            THEN /\ roots' = Append(roots, p)
                 /\ host' = [host EXCEPT !.handles = Append(@, ObjectHandle(p)),
                                         !.last = "root"]
            ELSE /\ roots' = roots
                 /\ host' = [host EXCEPT !.last = "root none"]
    /\ UNCHANGED <<heap, freed, values, frames, globals, names, rooted_values, type_infos, typeids, pc,
                   index, ret>>

\* VM::root_string
RootsRootString ==
    /\ pc = "host" /\ Len(host.handles) < MaxHandles
    /\ \E p \in Live :
         /\ heap[p].kind = "Str"
         /\ roots' = Append(roots, p)
         /\ host' = [host EXCEPT !.handles = Append(@, ObjectHandle(p)),
                                 !.last = "root_string"]
    /\ UNCHANGED <<heap, freed, values, frames, globals, names, rooted_values, type_infos, typeids, pc,
                   index, ret>>

\* RootedValue::clone (derived): a second handle on the same value
CloneRootedValue ==
    /\ pc = "host" /\ Len(host.handles) < MaxHandles
    /\ \E i \in 1..Len(host.handles) :
         /\ host.handles[i].kind = "RootedValue"
         /\ host' = [host EXCEPT
                       !.handles = Append(@, [host.handles[i] EXCEPT !.clone = TRUE]),
                       !.last = "clone", !.cloned = TRUE]
    /\ UNCHANGED <<heap, freed, values, frames, globals, names, roots, rooted_values, type_infos, typeids,
                   pc, index, ret>>

\* the release of the handle made last
ReleaseLast ==
    /\ pc = "host" /\ Len(host.handles) > 0
    /\ LET h == host.handles[Len(host.handles)]
           m == DropHandle(h, [roots |-> roots, rooted_values |-> rooted_values])
       IN /\ roots' = m.roots
          /\ rooted_values' = m.rooted_values
    /\ host' = [host EXCEPT !.handles = SubSeq(@, 1, Len(@) - 1), !.last = "drop"]
    /\ UNCHANGED <<heap, freed, values, frames, globals, names, pc, index, ret,
                   type_infos, typeids>>

\* VM::collect
RootsCollect ==
    /\ pc = "host"
    /\ Apply(collect(State))
    /\ host' = [host EXCEPT !.last = "collect"]
    /\ UNCHANGED <<globals, names, roots, rooted_values, type_infos, typeids>>

InitRoots ==
    /\ VMNew
    /\ host = [handles |-> <<>>, last |-> "new", cloned |-> FALSE]

NextRoots ==
    \/ NewObject \/ RootsRootValue \/ RootsRoot \/ RootsRootString
    \/ CloneRootedValue \/ ReleaseLast \/ RootsCollect

SpecRoots == InitRoots /\ [][NextRoots]_vars

-----------------------------------------------------------------------------
(* The life of a VM: the host pins objects through it, releases the        *)
(* handles in any order, makes a second VM with new_vm, lets either        *)
(* collect, and drops them. The two threads share the heap; the fields of  *)
(* the second one are kept in host.child. A handle borrows the VM it came  *)
(* from, so a VM is dropped only once its handles are gone.                *)

NoChild == [st |-> "none", ptr |-> 0, roots |-> <<>>, handles |-> <<>>]

\* Roots::traverse for the thread made by new_vm: itself, its stack and its
\* pinned values (none here), the globals and its own pinned objects.
ChildTraverse(child) ==
    {child.ptr}
      \cup UNION {ValueTraverse(globals[i].value) : i \in 1..Len(globals)}
      \cup {child.roots[i] : i \in 1..Len(child.roots)}

\* VM::drop: assert!(self.roots.borrow().len() == 1), then the pop. Read
\* through a pointer to a thread the collector has freed, the length is
\* whatever the memory holds: b says whether the assertion passes then.
VMDrop(thread_roots, dangling, b) ==
    IF dangling
    THEN [asserted |-> b, roots |-> thread_roots]
    ELSE [asserted |-> Len(thread_roots) = 1,
          roots |-> IF Len(thread_roots) = 1 THEN <<>> ELSE thread_roots]

\* What a drop leaves in the host's record.
Dropped(who, self, thread_roots, d) ==
    [who |-> who, self |-> self, roots |-> thread_roots, asserted |-> d.asserted]

\* the release of any handle of the first VM: Root::drop pops the last entry
ReleaseAny ==
    /\ pc = "host"
    /\ \E i \in 1..Len(host.handles) :
         /\ roots' = DropHandle(host.handles[i],
                                [roots |-> roots, rooted_values |-> rooted_values]).roots
         /\ host' = [host EXCEPT
                       !.handles = SubSeq(@, 1, i - 1) \o SubSeq(@, i + 1, Len(@)),
                       !.last = "drop"]
    /\ UNCHANGED <<heap, freed, values, frames, globals, names, rooted_values, pc, index,
                   ret, type_infos, typeids>>

\* VM::new_vm: the new thread is allocated with the roots of the first one
\* and pins itself in its own roots.
NewVm ==
    /\ pc = "host" /\ host.child.st = "none"
    /\ \E c \in BOOLEAN :
         /\ Apply(alloc(State, ThreadObject, c))
         /\ host' = [host EXCEPT
                       !.child = [st |-> "alive", ptr |-> NewPtr(State),
                                  roots |-> <<NewPtr(State)>>, handles |-> <<>>],
                       !.last = "new_vm"]
    /\ UNCHANGED <<globals, names, roots, rooted_values, type_infos, typeids>>

\* VM::root_string on the second VM
ChildRootString ==
    /\ host.child.st = "alive" /\ host.child.ptr \notin freed
    /\ Len(host.child.handles) < MaxHandles
    /\ \E p \in Live :
         /\ heap[p].kind = "Str"
         /\ host' = [host EXCEPT !.child.roots = Append(@, p),
                                 !.child.handles = Append(@, ObjectHandle(p)),
                                 !.last = "child root_string"]
    /\ UNCHANGED <<heap, freed, values, frames, globals, names, roots, rooted_values, pc,
                   index, ret, type_infos, typeids>>

\* the release of any handle of the second VM
ChildRelease ==
    /\ host.child.st = "alive" /\ host.child.ptr \notin freed
    /\ \E i \in 1..Len(host.child.handles) :
         host' = [host EXCEPT
                    !.child.roots = SubSeq(@, 1, Len(@) - 1),
                    !.child.handles = SubSeq(@, 1, i - 1) \o SubSeq(@, i + 1, Len(@)),
                    !.last = "child drop"]
    /\ UNCHANGED <<heap, freed, values, frames, globals, names, roots, rooted_values, pc,
                   index, ret, type_infos, typeids>>

\* VM::collect on the second VM: the roots are its own. The first VM is of
\* no more use to the host than to be dropped once its thread is freed.
ChildCollect ==
    /\ host.child.st = "alive" /\ host.child.ptr \notin freed
    /\ pc \in {"host", "lost"}
    /\ LET s == GcCollect(State, ChildTraverse(host.child))
       IN Apply([s EXCEPT !.pc = IF 1 \in s.freed THEN "lost" ELSE s.pc])
    /\ host' = [host EXCEPT !.last = "child collect"]
    /\ UNCHANGED <<globals, names, roots, rooted_values, type_infos, typeids>>

\* the drop of the VM made by new_vm, its handles released
DropChild ==
    /\ host.child.st = "alive" /\ host.child.handles = <<>>
    /\ \E b \in BOOLEAN :
         LET d == VMDrop(host.child.roots, host.child.ptr \in freed, b)
         IN host' = [host EXCEPT
                       !.child.st = "dropped", !.child.roots = d.roots,
                       !.last = "drop_vm",
                       !.dropped = Dropped("new_vm", host.child.ptr,
                                           host.child.roots, d)]
    /\ UNCHANGED <<heap, freed, values, frames, globals, names, roots, rooted_values, pc,
                   index, ret, type_infos, typeids>>

\* the drop of the VM made by VM::new, its handles released
DropMain ==
    /\ pc \in {"host", "lost"} /\ host.handles = <<>>
    /\ \E b \in BOOLEAN :
         LET d == VMDrop(roots, 1 \in freed, b)
         IN /\ roots' = d.roots
            /\ host' = [host EXCEPT
                          !.last = "drop_vm",
                          !.dropped = Dropped("new", 1, roots, d)]
    /\ pc' = "dropped"
    /\ UNCHANGED <<heap, freed, values, frames, globals, names, rooted_values, index, ret,
                   type_infos, typeids>>

InitDrop ==
    /\ VMNew
    /\ host = [handles |-> <<>>, last |-> "new", cloned |-> FALSE, child |-> NoChild,
               dropped |-> Dropped("none", 0, <<>>, [asserted |-> TRUE])]

NextDrop ==
    \/ NewObject \/ RootsRoot \/ RootsRootString \/ ReleaseAny \/ RootsCollect
    \/ NewVm \/ ChildRootString \/ ChildRelease \/ ChildCollect
    \/ DropChild \/ DropMain

SpecDrop == InitDrop /\ [][NextDrop]_vars

-----------------------------------------------------------------------------
(* The equality of values, applied by the host to two values out of a heap *)
(* that holds objects of every kind, some of them twice.                   *)

LazyObject == [kind |-> "Lazy"]

\* 1 thread, 2 3 4 strings, 5 6 7 data, 8 bytecode, 9 closure, 10 data
\* holding the closure, 11 extern function, 12 partial application,
\* 13 14 userdata, 15 lazy, 16 17 data holding data
SampleHeap ==
    <<ThreadObject, StrObject("a"), StrObject("a"), StrObject("b"),
      DataStruct(0, <<IntVal(1)>>), DataStruct(0, <<IntVal(1)>>),
      DataStruct(1, <<IntVal(1)>>),
      BytecodeFunction("f", 1, <<Push(0)>>, <<>>), ClosureData(8, <<>>),
      DataStruct(0, <<Closure(9)>>),
      ExternFunction("id", 1), PartialApplicationData(CallableExtern(11), <<>>),
      UserdataObject("A"), UserdataObject("A"), LazyObject,
      DataStruct(0, <<Data(5), String(2)>>), DataStruct(0, <<Data(6), String(3)>>)>>

SampleValues ==
    {IntVal(1), IntVal(2), Float(1), Float(2), ThreadVal(1),
     String(2), String(3), String(4), Data(5), Data(6), Data(7), Closure(9),
     Data(10), Function(11), PartialApplication(12), Userdata(13), Userdata(14),
     Lazy(15), Data(16), Data(17)}

\* the allocations by the host that fill the heap
RECURSIVE AllocAll(_, _)
AllocAll(s, os) == IF os = <<>> THEN s ELSE AllocAll(GcAlloc(s, Head(os)), Tail(os))

BuildSample ==
    /\ pc = "host" /\ Len(heap) = 1
    /\ Apply(AllocAll(State, Tail(SampleHeap)))
    /\ host' = [host EXCEPT !.last = "alloc"]
    /\ UNCHANGED <<globals, names, roots, rooted_values, type_infos, typeids>>

\* x == y
Compare ==
    /\ pc = "host" /\ heap = SampleHeap
    /\ \E x \in SampleValues, y \in SampleValues :
         host' = [last |-> "eq", x |-> x, y |-> y,
                  eq |-> ValueEq(State, x, y, MaxDepth)]
    /\ UNCHANGED <<heap, freed, values, frames, globals, names, roots, rooted_values, type_infos, typeids,
                   pc, index, ret>>

InitEq ==
    /\ VMNew
    /\ host = [last |-> "new", x |-> None, y |-> None, eq |-> FALSE]

NextEq == BuildSample \/ Compare

SpecEq == InitEq /\ [][NextEq]_vars

-----------------------------------------------------------------------------
(* Reading a global by a dotted path. A name is the sequence of its        *)
(* components; the registry is keyed by whole names.                       *)

Field(name, typ) == [name |-> name, typ |-> typ]
RecordType(fields) == [k |-> "Record", fields |-> fields]

\* A lookup that takes the first field whatever the name asked for.
MutOffsetFirst(fields, field_name) ==
    IF \E i \in 1..Len(fields) : fields[i].name = field_name THEN 1 ELSE 0
\* fields.iter().enumerate().find(name): the first field called field_name,
\* counted from 1; 0 when there is none.
FieldOffset(fields, field_name) ==
    IF \E i \in 1..Len(fields) : fields[i].name = field_name
    THEN CHOOSE i \in 1..Len(fields) :
            /\ fields[i].name = field_name
            /\ \A j \in 1..(i - 1) : fields[j].name # field_name
    ELSE 0

\* names.get(comp).or_else(|| names.get(name)): the first component, and
\* when it is not bound the whole name, with no component left to walk.
LookupGlobal(env, name) ==
    IF <<Head(name)>> \in DOMAIN env.names
    THEN [found |-> TRUE, i |-> env.names[<<Head(name)>>], rest |-> Tail(name)]
    ELSE IF name \in DOMAIN env.names
         THEN [found |-> TRUE, i |-> env.names[name], rest |-> <<>>]
         ELSE [found |-> FALSE, i |-> 0, rest |-> <<>>]

GetError(msg) == [st |-> "err", msg |-> msg, typ |-> None, value |-> None]

\* The loop over the remaining components of get_global.
RECURSIVE WalkFields(_, _, _, _)
WalkFields(s, typ, value, components) ==
    IF components = <<>>
    THEN [st |-> "ok", msg |-> "", typ |-> typ, value |-> value]
    ELSE LET offset == IF typ.k = "Record"
                       THEN FieldOffset(typ.fields, Head(components)) ELSE 0
         IN IF offset = 0 THEN GetError("cannot be accessed by the field")
            ELSE IF value.k # "Data" \/ offset > Len(s.heap[value.v].fields)
                 THEN [GetError("panic") EXCEPT !.st = "abort"]
                 ELSE WalkFields(s, typ.fields[offset].typ,
                                 s.heap[value.v].fields[offset], Tail(components))

\* Getable::from_value: the value is of the kind the host type reads.
FromValue(typ, value) ==
    \/ typ.k = "Int" /\ value.k = "Int"
    \/ typ.k = "Float" /\ value.k = "Float"
    \/ typ.k = "Record" /\ value.k = "Data"

\* VM::get_global
get_global(s, env, name, T) ==
    IF name = <<>> THEN GetError("is not a valid name")
    ELSE LET g == LookupGlobal(env, name)
         IN IF ~g.found THEN GetError("Could not retrieve global")
            ELSE LET global == env.globals[g.i + 1]
                     w == WalkFields(s, global.typ, global.value, g.rest)
                 IN IF w.st # "ok" THEN w
                    ELSE IF w.typ = T
                         THEN IF FromValue(T, w.value) THEN w
                              ELSE GetError("Could not retrieve global")
                         ELSE GetError("Could not retrieve global as the types did not match")

InnerType == RecordType(<<Field("z", FloatType), Field("w", IntType)>>)
OuterType == RecordType(<<Field("x", IntType), Field("y", InnerType)>>)

\* the scalar globals the host binds: name, static type, value
ScalarGlobals ==
    {[name |-> <<"a">>, typ |-> IntType, value |-> IntVal(1)],
     [name |-> <<"m">>, typ |-> FloatType, value |-> Float(5)],
     [name |-> <<"m", "x">>, typ |-> IntType, value |-> IntVal(9)]}

Paths ==
    {<<>>, <<"a">>, <<"r">>, <<"r", "x">>, <<"r", "y", "w">>, <<"r", "y", "z">>,
     <<"r", "q">>, <<"a", "x">>, <<"m", "x">>, <<"m">>, <<"n">>}

RequestedTypes == {IntType, FloatType, InnerType}

NoGet == [st |-> "none", msg |-> "", typ |-> None, value |-> None]

\* set_global of a scalar under a plain or a dotted name
SetScalar ==
    /\ pc = "host" /\ Len(globals) < MaxGlobals
    /\ \E g \in ScalarGlobals :
         LET r == set_global(Env, g.name, g.typ, g.value)
         IN /\ globals' = r.globals
            /\ names' = r.names
            /\ ret' = [op |-> "set_global", st |-> r.st, msg |-> ""]
            /\ host' = [last |-> "set", path |-> g.name, typ |-> g.typ, r |-> NoGet]
    /\ UNCHANGED <<heap, freed, values, frames, pc, index, roots, rooted_values, type_infos, typeids>>

\* new_data of the inner and the outer record, then set_global of "r"
SetRecord ==
    /\ pc = "host" /\ Len(globals) < MaxGlobals /\ <<"r">> \notin DOMAIN names
    /\ LET s1 == new_data(State, 0, <<Float(3), IntVal(4)>>)
           s2 == new_data(s1, 0, <<IntVal(2), Data(NewPtr(State))>>)
           r == set_global(Env, <<"r">>, OuterType, Data(NewPtr(s1)))
       IN /\ Apply([s2 EXCEPT !.ret = [op |-> "set_global", st |-> r.st, msg |-> ""]])
          /\ globals' = r.globals
          /\ names' = r.names
          /\ host' = [last |-> "set", path |-> <<"r">>, typ |-> OuterType, r |-> NoGet]
    /\ UNCHANGED <<roots, rooted_values, type_infos, typeids>>

\* get_global::<T>(path)
GetGlobal ==
    /\ pc = "host"
    /\ \E path \in Paths, T \in RequestedTypes :
         LET r == get_global(State, Env, path, T)
         IN /\ ret' = [op |-> "get_global", st |-> r.st, msg |-> r.msg]
            /\ host' = [last |-> "get", path |-> path, typ |-> T, r |-> r]
    /\ UNCHANGED <<heap, freed, values, frames, globals, names, pc, index, roots,
                   rooted_values, type_infos, typeids>>

InitGet ==
    /\ VMNew
    /\ host = [last |-> "new", path |-> <<>>, typ |-> None, r |-> NoGet]

NextGet == SetScalar \/ SetRecord \/ GetGlobal

SpecGet == InitGet /\ [][NextGet]_vars

-----------------------------------------------------------------------------
(* Running a compiled module.                                              *)

MaxModules == 2

IOType == [k |-> "Data", id |-> "IO"]
OptionType == [k |-> "Data", id |-> "Option"]

\* A test that takes no type for IO.
MutNeverIO(typ) == FALSE
\* Type::Data(TypeConstructor::Data(id), _) with id == symbols.io
IsIO(typ) == typ.k = "Data" /\ typ.id = "IO"

Succeeded(s) == s.pc = "host" /\ s.ret.st = "ok"

\* VM::call_bytecode, to its call of execute
call_bytecode(s, closure) ==
    Continue(enter_scope(push(s, Closure(closure)), 0, CallableClosure(closure)))

\* VM::call_module, the IO branch: from the three pushes to call_function
call_module_io(s, value, c) ==
    call_function(enter_scope(push(push(push(s, IntVal(0)), value), IntVal(0)), 2, None),
                  1, c)

\* VM::call_module, the IO branch once call_function is back: the result is
\* popped, the frame emptied and left.
call_module_exit(s) ==
    IF s.ret.msg = "None" THEN Panic(s, "call_module to have the stack remaining")
    ELSE exit_scope(popn(s, len(s)))

\* The modules the host runs: top-level closures of no argument.
ModInt == CompiledFunction("mod_int", 0, <<PushInt(5)>>, <<>>)
ModInc == CompiledFunction("mod_inc", 0, <<PushGlobal(1)>>, <<>>)
ModAdd3 == CompiledFunction("mod_add3", 0, <<PushGlobal(0)>>, <<>>)
ModMkAdd == CompiledFunction("mod_mkadd", 0, <<PushGlobal(2), PushInt(2), Call(1)>>, <<>>)
ModBad == CompiledFunction("mod_bad", 0, <<PushInt(3), Push(0), Call(1)>>, <<>>)
Modules == {ModInt, ModInc, ModAdd3, ModMkAdd, ModBad}
ModuleTypes == {IntType, IOType, OptionType}

\* The host compiles a module to a closure and calls call_module, which
\* calls call_bytecode.
CallModule ==
    /\ pc = "host" /\ Loaded /\ host.phase = "idle" /\ host.calls < MaxModules
    /\ \E m \in Modules, typ \in ModuleTypes :
         LET f == new_function(State, m)
             s1 == alloc(f.s, ClosureData(f.ptr, <<>>), FALSE)
             closure == NewPtr(f.s)
         IN /\ Apply(call_bytecode(s1, closure))
            /\ host' = [last |-> "call_module", phase |-> "bytecode",
                        calls |-> host.calls + 1, typ |-> typ, closure |-> closure,
                        s0 |-> s1, value |-> None]
    /\ UNCHANGED <<globals, names, roots, rooted_values, type_infos, typeids>>

\* call_module when call_bytecode is back: its error is passed on; its value
\* is the result, or with the type IO a is applied.
CallModuleReturned ==
    /\ pc = "host" /\ host.phase = "bytecode"
    /\ IF ret.st # "ok"
       THEN /\ host' = [host EXCEPT !.phase = "idle", !.last = "module"]
            /\ UNCHANGED <<heap, freed, values, frames, pc, index, ret>>
       ELSE IF IsIO(host.typ)
       THEN /\ \E c \in BOOLEAN : Apply(call_module_io(pop(State), top(State), c))
            /\ host' = [host EXCEPT !.phase = "io"]
       ELSE /\ Apply(pop(State))
            /\ host' = [host EXCEPT !.phase = "idle", !.last = "module",
                                    !.value = top(State)]
    /\ UNCHANGED <<globals, names, roots, rooted_values, type_infos, typeids>>

\* call_module when call_function is back
CallModuleApplied ==
    /\ pc = "host" /\ host.phase = "io"
    /\ IF ret.st # "ok"
       THEN /\ host' = [host EXCEPT !.phase = "idle", !.last = "module"]
            /\ UNCHANGED <<heap, freed, values, frames, pc, index, ret>>
       ELSE /\ Apply(call_module_exit(State))
            /\ host' = [host EXCEPT !.phase = "idle", !.last = "module",
                                    !.value = IF ret.msg = "None" THEN None
                                              ELSE top(State)]
    /\ UNCHANGED <<globals, names, roots, rooted_values, type_infos, typeids>>

InitModule ==
    /\ VMNew
    /\ host = [last |-> "new", phase |-> "idle", calls |-> 0, typ |-> None,
               closure |-> 0, s0 |-> None, value |-> None]

NextModule ==
    \/ AddBytecode \/ LoadFunction \/ DefineNative
    \/ CallModule \/ CallModuleReturned \/ CallModuleApplied
    \/ ExecuteHost \/ ExecuteClosure
    \/ StepPush \/ StepPushInt \/ StepPushGlobal \/ StepPushUpVar
    \/ StepCall \/ StepMakeClosure \/ StepBinop \/ StepReturn

SpecModule == InitModule /\ [][NextModule]_vars

-----------------------------------------------------------------------------
(* The host registers its own types, under names of its choice.            *)

MaxTypes == 2

HostTypes == {"A", "B", "VMInt"}
TypeNames == {"X", "Y", "Thread"}
TypeArgs == {<<>>, <<"a">>}

Types == [type_infos |-> type_infos, typeids |-> typeids, st |-> "ok"]

\* register_type::<T>(name, args)
RegisterType ==
    /\ pc = "host" /\ host.n < MaxTypes
    /\ \E T \in HostTypes, name \in TypeNames, args \in TypeArgs :
         LET r == register_type(Types, T, name, args)
         IN /\ type_infos' = r.type_infos
            /\ typeids' = r.typeids
            /\ pc' = IF r.st = "panic" THEN "abort" ELSE "host"
            /\ ret' = [op |-> "register_type", st |-> r.st, msg |-> name]
            /\ host' = [last |-> "register", n |-> host.n + 1, T |-> T, name |-> name,
                        args |-> args,
                        pre |-> [type_infos |-> type_infos, typeids |-> typeids]]
    /\ UNCHANGED <<heap, freed, values, frames, globals, names, roots, rooted_values,
                   index>>

InitTypes ==
    /\ VMNew
    /\ host = [last |-> "new", n |-> 0, T |-> "", name |-> "", args |-> <<>>,
               pre |-> [type_infos |-> add_types.type_infos,
                        typeids |-> add_types.typeids]]

NextTypes == RegisterType

SpecTypes == InitTypes /\ [][NextTypes]_vars

-----------------------------------------------------------------------------
(* The arithmetic and comparison instructions: the host binds a function   *)
(* that applies one instruction to its two arguments, or the function      *)
(* (2 + 3) * 4, and calls it.                                              *)

Operands == {-1, 0, 2}

\* \l r -> l op r
ArithProgram(op) == CompiledFunction("arith", 2, <<Push(0), Push(1), Binop(op)>>, <<>>)
\* (2 + 3) * 4
TwentyProgram ==
    CompiledFunction("twenty", 0,
        <<PushInt(2), PushInt(3), AddInt, PushInt(4), Binop("MultiplyInt")>>, <<>>)

\* add_bytecode of the function of one instruction
LoadArith ==
    /\ pc = "host" /\ Len(globals) = 0
    /\ \E op \in BinOps, c \in BOOLEAN :
         LET f == ArithProgram(op)
             r == add_bytecode(State, Env, f.id, "fn", f.args, f.instructions, c)
         IN /\ Apply([r.s EXCEPT !.ret = [op |-> "add_bytecode", st |-> r.st,
                                          msg |-> f.id]])
            /\ globals' = r.globals
            /\ names' = r.names
            /\ host' = [host EXCEPT !.last = "add_bytecode", !.op = op]
    /\ UNCHANGED <<roots, rooted_values, type_infos, typeids>>

\* add_bytecode of (2 + 3) * 4
LoadTwenty ==
    /\ pc = "host" /\ Len(globals) = 0
    /\ \E c \in BOOLEAN :
         LET f == TwentyProgram
             r == add_bytecode(State, Env, f.id, "fn", f.args, f.instructions, c)
         IN /\ Apply([r.s EXCEPT !.ret = [op |-> "add_bytecode", st |-> r.st,
                                          msg |-> f.id]])
            /\ globals' = r.globals
            /\ names' = r.names
            /\ host' = [host EXCEPT !.last = "add_bytecode", !.op = "twenty"]
    /\ UNCHANGED <<roots, rooted_values, type_infos, typeids>>

\* call_function on the function of one instruction and two operands of its kind
CallArith ==
    /\ pc = "host" /\ host.last = "add_bytecode" /\ globals[1].id = "arith"
    /\ \E l \in Operands, r \in Operands, c \in BOOLEAN :
         LET x == IF host.op \in IntOps THEN IntVal(l) ELSE Float(l)
             y == IF host.op \in IntOps THEN IntVal(r) ELSE Float(r)
         IN /\ Apply(call_function(pushall(push(State, globals[1].value), <<x, y>>),
                                   2, c))
            /\ host' = [host EXCEPT !.last = "call", !.l = l, !.r = r]
    /\ UNCHANGED <<globals, names, roots, rooted_values, type_infos, typeids>>

\* call_function on (2 + 3) * 4
CallTwenty ==
    /\ pc = "host" /\ host.last = "add_bytecode" /\ globals[1].id = "twenty"
    /\ \E c \in BOOLEAN : Apply(call_function(push(State, globals[1].value), 0, c))
    /\ host' = [host EXCEPT !.last = "call"]
    /\ UNCHANGED <<globals, names, roots, rooted_values, type_infos, typeids>>

InitArith ==
    /\ VMNew
    /\ host = [last |-> "new", op |-> "", l |-> 0, r |-> 0]

NextArith ==
    \/ LoadArith \/ LoadTwenty \/ CallArith \/ CallTwenty
    \/ ExecuteHost \/ ExecuteClosure
    \/ StepPush \/ StepPushInt \/ StepBinop \/ StepReturn

SpecArith == InitArith /\ [][NextArith]_vars

-----------------------------------------------------------------------------
(* Callbacks that call the machine: the foreign function apply calls its   *)
(* first argument on its second with call_function and returns the result. *)
(* The callback runs between two steps of the interpreter; the host and    *)
(* the callbacks in progress are the callers of call_function, innermost   *)
(* last, and control is with the innermost one when pc = "host".           *)

MaxCalls == 2

\* Global 2: \y -> apply inc y, apply the foreign function bound as global 0
ViaApply ==
    CompiledFunction("viaapply", 1,
        <<PushGlobal(0), PushGlobal(1), Push(0), Call(2)>>, <<>>)
\* Global 3: \x -> inc x, followed by a jump past the end of the function
Jumpy ==
    CompiledFunction("jumpy", 1, <<PushGlobal(1), Push(0), Call(1), Jump(7)>>, <<>>)

CallbackPrograms == <<Inc, ViaApply, Jumpy>>

\* What the host calls: a global and the arguments it is called on.
CallbackEntries ==
    { [f |-> 0, xs |-> <<GlobalRef(1), IntVal(7)>>],
      [f |-> 0, xs |-> <<GlobalRef(2), IntVal(7)>>],
      [f |-> 0, xs |-> <<GlobalRef(3), IntVal(7)>>],
      [f |-> 0, xs |-> <<IntVal(3), IntVal(1)>>],
      [f |-> 3, xs |-> <<IntVal(7)>> ] }

\* The callback in progress that control is with.
InCallback == pc = "host" /\ Len(host.calls) > 0
CurrentCall == host.calls[Len(host.calls)]
CallbackAt(phase) == InCallback /\ CurrentCall.phase = phase

\* define_global of the foreign function apply
DefineApply ==
    /\ pc = "host" /\ Len(globals) = 0
    /\ \E c \in BOOLEAN :
         LET r == define_global(State, Env, "apply", Native("apply"), c)
         IN /\ Apply([r.s EXCEPT !.ret = [op |-> "define_global", st |-> r.st,
                                          msg |-> "apply"]])
            /\ globals' = r.globals
            /\ names' = r.names
    /\ UNCHANGED <<roots, rooted_values, type_infos, typeids, host>>

\* add_bytecode of the next function
AddCallbackBytecode ==
    /\ pc = "host" /\ Len(globals) \in 1..Len(CallbackPrograms)
    /\ \E c \in BOOLEAN :
         LET f == CallbackPrograms[Len(globals)]
             r == add_bytecode(State, Env, f.id, "fn", f.args, f.instructions, c)
         IN /\ Apply([r.s EXCEPT !.ret = [op |-> "add_bytecode", st |-> r.st,
                                          msg |-> f.id]])
            /\ globals' = r.globals
            /\ names' = r.names
    /\ UNCHANGED <<roots, rooted_values, type_infos, typeids, host>>

\* The host pushes a global and its arguments, takes current_frame() and
\* calls call_function.
CallbackHostCall ==
    /\ pc = "host" /\ host.calls = <<>> /\ host.phase = "idle"
    /\ Len(globals) = Len(CallbackPrograms) + 1
    /\ host.made < MaxCalls
    /\ \E e \in CallbackEntries, c \in BOOLEAN :
         /\ Apply(call_function(pushall(push(State, globals[e.f + 1].value),
                                        ArgValues(e.xs, 0, Len(e.xs))),
                                Len(e.xs), c))
         /\ host' = [host EXCEPT !.phase = "calling", !.made = @ + 1, !.e = e,
                                 !.borrowed = TRUE, !.last = "call"]
    /\ UNCHANGED <<globals, names, roots, rooted_values, type_infos, typeids>>

\* call_function has returned to the host, which drops what it returned.
CallFunctionReturned ==
    /\ pc = "host" /\ host.calls = <<>> /\ host.phase = "calling"
    /\ host' = [host EXCEPT !.phase = "idle", !.borrowed = FALSE, !.last = "returned"]
    /\ UNCHANGED <<heap, freed, values, frames, globals, names, roots, rooted_values,
                   type_infos, typeids, pc, index, ret>>

\* VM::execute at a foreign frame that was not called yet: the frame is
\* marked and VM::execute_function drops the stack and calls the callback.
CallbackInvoke ==
    /\ InFrame("Extern")
    /\ Frame(State).function.v \notin freed
    /\ ~AlreadyCalled(Frame(State))
    /\ Apply([MarkCalled(State) EXCEPT !.pc = "host"])
    /\ host' = [host EXCEPT
                  !.calls = Append(@, [depth |-> Len(frames), phase |-> "start",
                                       collected |-> FALSE, stack |-> values]),
                  !.invoked = @ + 1,
                  !.borrowed = DropStack(@),
                  !.last = "invoke"]
    /\ UNCHANGED <<globals, names, roots, rooted_values, type_infos, typeids>>

\* VM::execute at a foreign frame that was already called (or whose
\* function was freed): the loop returns to the caller of call_function.
ExecuteEntered ==
    /\ InFrame("Extern")
    /\ Frame(State).function.v \in freed \/ AlreadyCalled(Frame(State))
    /\ Apply(execute(State))
    /\ UNCHANGED Rest

\* The callback calls collect(), which borrows the stack.
CallbackCollect ==
    /\ CallbackAt("start") /\ ~CurrentCall.collected
    /\ IF host.borrowed
       THEN Apply(Panic(State, "already borrowed"))
       ELSE Apply(collect(State))
    /\ host' = [host EXCEPT !.calls[Len(host.calls)].collected = TRUE,
                            !.last = "collect"]
    /\ UNCHANGED <<globals, names, roots, rooted_values, type_infos, typeids>>

\* The callback pushes its two arguments, takes current_frame() and calls
\* call_function(1).
CallbackCall ==
    /\ CallbackAt("start")
    /\ \E c \in BOOLEAN :
         IF host.borrowed
         THEN Apply(Panic(State, "already borrowed"))
         ELSE Apply(call_function(pushall(State, <<get(State, 0), get(State, 1)>>),
                                  1, c))
    /\ host' = [host EXCEPT !.calls[Len(host.calls)].phase = "calling",
                            !.borrowed = TRUE, !.last = "call"]
    /\ UNCHANGED <<globals, names, roots, rooted_values, type_infos, typeids>>

\* The call of the callback has returned: the callback returns Ok over the
\* result, or pushes 0 and returns Error, and VM::execute_function goes on
\* from current_frame().
CallbackReturn ==
    /\ CallbackAt("calling")
    /\ IF ret.st = "ok"
       THEN Apply(execute_function_returned(State, "Ok"))
       ELSE Apply(execute_function_returned(push(State, IntVal(0)), "Error"))
    /\ host' = [host EXCEPT !.calls = SubSeq(@, 1, Len(@) - 1),
                            !.borrowed = TRUE, !.last = "return"]
    /\ UNCHANGED <<globals, names, roots, rooted_values, type_infos, typeids>>

InitCallback ==
    /\ VMNew
    /\ host = [last |-> "new", phase |-> "idle", calls |-> <<>>, invoked |-> 0,
               borrowed |-> FALSE, made |-> 0, e |-> [f |-> 0, xs |-> <<>>]]

NextCallback ==
    \/ DefineApply \/ AddCallbackBytecode
    \/ CallbackHostCall \/ CallFunctionReturned
    \/ CallbackInvoke \/ ExecuteEntered
    \/ CallbackCollect \/ CallbackCall \/ CallbackReturn
    \/ ExecuteHost \/ ExecuteClosure
    \/ StepPush \/ StepPushInt \/ StepPushGlobal \/ StepCall \/ StepJump
    \/ StepBinop \/ StepReturn

SpecCallback == InitCallback /\ [][NextCallback]_vars

-----------------------------------------------------------------------------
(* Objects written after they are made: the host binds a function that     *)
(* makes a closure with placeholders and closes it over its arguments, or  *)
(* a function that writes a field of an array and reads it back, and       *)
(* calls it.                                                               *)

CellValues == {IntVal(5), IntVal(7)}

\* \z -> upvar 0 - upvar 1 (or upvar 0 - z for one upvar)
UpvarProgram(n) ==
    CompiledFunction("upv", 1,
        IF n = 1 THEN <<PushUpVar(0), Push(0), SubtractInt>>
        ELSE <<PushUpVar(0), PushUpVar(1), SubtractInt>>, <<>>)

\* \x1 .. xn -> let c = the closure of upv over x1 .. xn, closed after it
\* was made, in c
CloseProgram(n) ==
    CompiledFunction("close", n,
        <<NewClosure(0, n), Push(n)>> \o [k \in 1..n |-> Push(k - 1)]
          \o <<CloseClosure(n)>>,
        <<UpvarProgram(n)>>)

\* \x -> a closure of upv with more upvars than there are placeholders
ManyProgram ==
    CompiledFunction("many", 1, <<NewClosure(0, MaxPlaceholders + 1)>>,
                     <<UpvarProgram(1)>>)

\* \a i v -> a[i] = v; a[i]
IndexProgram ==
    CompiledFunction("setget", 3,
        <<Push(0), Push(1), Push(2), SetIndex, Push(0), Push(1), GetIndex>>, <<>>)

\* the function that closes a closure, bound as a global
LoadClose ==
    /\ pc = "host" /\ Len(globals) = 0
    /\ \E n \in 1..MaxFields, c \in BOOLEAN :
         LET f == CloseProgram(n)
             r == load_function(State, Env, f, "fn", c)
         IN /\ Apply([r.s EXCEPT !.ret = [op |-> "set_global", st |-> r.st,
                                          msg |-> f.id]])
            /\ globals' = r.globals
            /\ names' = r.names
            /\ host' = [host EXCEPT !.last = "load", !.n = n]
    /\ UNCHANGED <<roots, rooted_values, type_infos, typeids>>

\* the function of the closure with many upvars, bound as a global
LoadMany ==
    /\ pc = "host" /\ Len(globals) = 0
    /\ \E c \in BOOLEAN :
         LET f == ManyProgram
             r == load_function(State, Env, f, "fn", c)
         IN /\ Apply([r.s EXCEPT !.ret = [op |-> "set_global", st |-> r.st,
                                          msg |-> f.id]])
            /\ globals' = r.globals
            /\ names' = r.names
            /\ host' = [host EXCEPT !.last = "load", !.n = 1]
    /\ UNCHANGED <<roots, rooted_values, type_infos, typeids>>

\* add_bytecode of the function that writes and reads a field
LoadIndex ==
    /\ pc = "host" /\ Len(globals) = 0
    /\ \E c \in BOOLEAN :
         LET f == IndexProgram
             r == add_bytecode(State, Env, f.id, "fn", f.args, f.instructions, c)
         IN /\ Apply([r.s EXCEPT !.ret = [op |-> "add_bytecode", st |-> r.st,
                                          msg |-> f.id]])
            /\ globals' = r.globals
            /\ names' = r.names
            /\ host' = [host EXCEPT !.last = "load"]
    /\ UNCHANGED <<roots, rooted_values, type_infos, typeids>>

\* call_function on the closing function and n values
CallClose ==
    /\ pc = "host" /\ host.last = "load" /\ globals[1].id \in {"close", "many"}
    /\ \E xs \in [1..host.n -> CellValues], c \in BOOLEAN :
         /\ Apply(call_function(pushall(push(State, globals[1].value), xs), host.n, c))
         /\ host' = [host EXCEPT !.last = "close", !.xs = xs]
    /\ UNCHANGED <<globals, names, roots, rooted_values, type_infos, typeids>>

\* call_function on the closure that was returned and one value
CallClosed ==
    /\ pc = "host" /\ host.last = "close" /\ ret.st = "ok"
    /\ \E c \in BOOLEAN : Apply(call_function(push(State, IntVal(1)), 1, c))
    /\ host' = [host EXCEPT !.last = "closed"]
    /\ UNCHANGED <<globals, names, roots, rooted_values, type_infos, typeids>>

\* new_data of an array of two fields, which the host keeps on the stack,
\* and call_function on the index function, the array, an index and a value
CallIndex ==
    /\ pc = "host" /\ host.last = "load" /\ globals[1].id = "setget"
    /\ LET s1 == new_data(State, 0, <<IntVal(10), IntVal(20)>>)
           a == Data(NewPtr(State))
       IN \E i \in 0..MaxFields, v \in CellValues \cup {a}, c \in BOOLEAN :
            /\ Apply(call_function(
                       pushall(s1, <<a, globals[1].value, a, IntVal(i), v>>), 3, c))
            /\ host' = [host EXCEPT !.last = "index", !.n = i, !.xs = <<a, v>>]
    /\ UNCHANGED <<globals, names, roots, rooted_values, type_infos, typeids>>

InitCells ==
    /\ VMNew
    /\ host = [last |-> "new", n |-> 0, xs |-> <<>>]

NextCells ==
    \/ LoadClose \/ LoadMany \/ LoadIndex \/ CallClose \/ CallClosed \/ CallIndex
    \/ ExecuteHost \/ ExecuteClosure
    \/ StepPush \/ StepPushUpVar \/ StepNewClosure \/ StepCloseClosure
    \/ StepGetIndex \/ StepSetIndex \/ StepBinop \/ StepReturn

SpecCells == InitCells /\ [][NextCells]_vars

-----------------------------------------------------------------------------
(* What a value is, with the addresses taken out: two results computed in  *)
(* different runs are the same result when these agree.                    *)

RECURSIVE Deep(_, _, _)
Deep(s, v, d) ==
    IF d = 0 THEN [k |-> v.k]
    ELSE CASE v.k = "Data" ->
                [k |-> "Data", tag |-> s.heap[v.v].tag,
                 fields |-> [i \in 1..Len(s.heap[v.v].fields) |->
                               Deep(s, s.heap[v.v].fields[i], d - 1)]]
           [] v.k = "Closure" ->
                [k |-> "Closure", name |-> s.heap[s.heap[v.v].function].name,
                 upvars |-> [i \in 1..Len(s.heap[v.v].upvars) |->
                               Deep(s, s.heap[v.v].upvars[i], d - 1)]]
           [] v.k = "PartialApplication" ->
                [k |-> "PartialApplication",
                 function |-> Deep(s, IF s.heap[v.v].function.k = "Extern"
                                      THEN Function(s.heap[v.v].function.v)
                                      ELSE s.heap[v.v].function, d - 1),
                 arguments |-> [i \in 1..Len(s.heap[v.v].arguments) |->
                                  Deep(s, s.heap[v.v].arguments[i], d - 1)]]
           [] v.k = "Function" -> [k |-> "Function", id |-> s.heap[v.v].id]
           [] OTHER -> v

DeepStack(s) == [i \in 1..Len(s.values) |-> Deep(s, s.values[i], MaxDepth)]

\* The call of host entry e from state s with the arguments given one at a time.
RECURSIVE Curried(_, _, _)
Curried(s, e, done) ==
    IF done = Len(e.xs) \/ s.ret.st # "ok" THEN s
    ELSE Curried(Run(HostApplyState(s, e, done, 1, FALSE)), e, done + 1)

CurriedFrom(s, e) == Curried(Run(HostCallState(s, e, 1, FALSE)), e, 1)

\* The host's call has just returned.
CallReturned == pc = "host" /\ ret.op = "call" /\ host.last = "call"

-----------------------------------------------------------------------------
(* Claims.                                                                 *)

\* C1: every PartialApplication object ever created holds strictly fewer
\* bound arguments than the arity of the callable it stores.
C1_PartialApplicationUnsaturated ==
    \A p \in 1..Len(heap) :
        heap[p].kind = "PartialApplication"
            => Len(heap[p].arguments) < CallableArgs(State, heap[p].function)

\* C1 witness: the call of a partial application by the re-dispatch of excess
\* arguments has built a partial application with two bound arguments.
C1_Witness ==
    /\ CallReturned /\ ret.st = "ok"
    /\ host.e.f = GlobalRef(6) /\ host.chunks = 1 /\ host.done = 2
    /\ top(State).k = "PartialApplication"
    /\ Len(heap[top(State).v].arguments) = 2

\* C2: calling f with a arguments in one call yields the same result, and the
\* same caller stack, as applying f to the arguments one at a time.
C2_CurryingEquivalence ==
    (CallReturned /\ host.chains = 1 /\ host.chunks = 1
                  /\ host.done = Len(host.e.xs))
        => LET r == CurriedFrom(host.s0, host.e)
           IN /\ ret.st = r.ret.st
              /\ Len(frames) = Len(r.frames)
              /\ DeepStack(State) = DeepStack(r)

\* The frame of the tail-recursive function has just been entered.
LoopEntry ==
    /\ pc = "execute"
    /\ Frame(State).function.k = "Closure"
    /\ CurrentFunction(State).name = "loop"
    /\ Frame(State).instruction_index = 0

\* C3: at the entry of each iteration of a closure that calls itself by
\* TailCall, the frame depth and the stack height are those of the first entry.
C3_TailCallConstantStack ==
    LoopEntry => /\ Len(frames) = host.entry.depth
                 /\ Len(values) = host.entry.height

\* C3 witness: the third iteration is entered, after two tail calls.
C3_Witness == LoopEntry /\ get(State, 0) = IntVal(0) /\ host.e.xs[1] = IntVal(2)

\* C4: after collect() every object reachable from the root set is still
\* allocated and unchanged; only unreachable objects are freed.
C4_CollectKeepsReachable ==
    (pc = "host" /\ host.last = "collect") => Reachable(State) \cap freed = {}

\* C10: after a call that failed inside a nested closure frame, a further
\* call runs only the newly called function and returns what it returns on
\* a machine where the failed call never happened.
C10_UsableAfterError ==
    /\ (pc = "instr" /\ host.chains = 2) => Len(frames) > host.depth
    /\ (CallReturned /\ host.chains = 2 /\ host.chunks = 1)
         => LET r == Run(HostCallState(host.clean, host.e, host.done, FALSE))
            IN /\ ret.st = r.ret.st
               /\ Deep(State, top(State), MaxDepth) = Deep(r, top(r), MaxDepth)

\* The interpreter is in the frame of the function called name, about to
\* execute its instruction idx.
InData(name, idx) ==
    /\ pc = "instr" /\ host.last = "call"
    /\ Frame(State).function.k = "Closure"
    /\ CurrentFunction(State).name = name
    /\ index = idx

\* C5: Construct(t, n) on n pushed values followed by GetField(i), i < n,
\* leaves on top the i-th value pushed, the stack below unchanged, and the
\* stack n - 1 slots shorter than before Construct.
C5_ConstructGetField ==
    InData("field", host.n + 2)
        => /\ top(State) = host.xs[host.i + 1]
           /\ Len(values) = Len(host.before \o host.xs) - (host.n - 1)
           /\ SubSeq(values, 1, Len(values) - 1) = host.before

\* C5 witness: the second of two different values has been read back.
C5_Witness ==
    /\ InData("field", host.n + 2)
    /\ host.n = 2 /\ host.i = 1 /\ host.xs[1] # host.xs[2]
    /\ top(State) = host.xs[2]

\* C6: Split pushes the fields of the data value in field order, and Split
\* then Construct(t, n) leaves on top a data value with tag t and the same
\* fields in the same order, structurally equal to the original.
C6_SplitConstruct ==
    /\ InData("split", 2) => values = host.before \o heap[host.d.v].fields
    /\ InData("split", 3)
         => /\ top(State).k = "Data"
            /\ heap[top(State).v].tag = host.t
            /\ heap[top(State).v].fields = heap[host.d.v].fields
            /\ ValueEq(State, top(State), host.d, MaxDepth)
            /\ SubSeq(values, 1, Len(values) - 1) = host.before

\* C6 witness: a value with two different fields, one of them a data value,
\* has been split and built again.
C6_Witness ==
    /\ InData("split", 3)
    /\ host.n = 2 /\ host.xs[1] # host.xs[2] /\ host.xs[2].k = "Data"
    /\ top(State) # host.d

\* C7: the globals vector only grows, an entry keeps its id and type at its
\* index, and every index in the names map is a valid index of the globals
\* vector whose entry carries that name.
C7_GlobalsAppendOnly ==
    /\ [](\A n \in DOMAIN names :
            /\ names[n] \in 0..(Len(globals) - 1)
            /\ globals[names[n] + 1].id = n)
    /\ [][/\ Len(globals') >= Len(globals)
          /\ \A k \in 1..Len(globals) :
               /\ globals'[k].id = globals[k].id
               /\ globals'[k].typ = globals[k].typ]_vars

\* C7 witness: add_bytecode has bound again a name that was bound by
\* set_global, over the entry that keeps its index.
C7_Witness ==
    /\ host.last = "add_bytecode" /\ host.bound
    /\ Len(globals) = 2
    /\ globals[1].typ = "Int" /\ globals[1].id = globals[2].id
    /\ names[globals[1].id] = 1

\* C8: no two entries of the globals vector carry the same id.
C8_GlobalNamesUnique ==
    \A i, j \in 1..Len(globals) : i # j => globals[i].id # globals[j].id

\* The call left the registry and the stack as they were.
RegistryUnchanged ==
    /\ globals = host.pre.globals
    /\ names = host.pre.names
    /\ values = host.pre.values

\* The call appended one global and bound the name to its index.
RegistryAppended ==
    /\ Len(globals) = Len(host.pre.globals) + 1
    /\ SubSeq(globals, 1, Len(globals) - 1) = host.pre.globals
    /\ globals[Len(globals)].id = host.name
    /\ DOMAIN names = DOMAIN host.pre.names \cup {host.name}
    /\ names[host.name] = Len(globals) - 1
    /\ \A n \in DOMAIN host.pre.names : names[n] = host.pre.names[n]

\* C9 as stated: set_global and define_global with a bound name return an
\* error and leave globals, names and stack as they were; with an unbound
\* name they append exactly one global and bind the name to its index.
C9_BoundFailsUnboundAppends ==
    host.last \in {"set_global", "define_global"}
        => IF host.bound THEN ret.st = "err" /\ RegistryUnchanged
           ELSE RegistryAppended

\* C9 amended: with an unbound name they append exactly one global and bind
\* the name to its index, unless the push of the value given to
\* define_global reports an error: then define_global returns an error and
\* leaves globals, names and stack as they were, as with a bound name.
C9_BoundOrFailedPushFailsElseAppends ==
    host.last \in {"set_global", "define_global"}
        => IF host.bound \/ host.status = "Error"
           THEN ret.st = "err" /\ RegistryUnchanged
           ELSE ret.st = "ok" /\ RegistryAppended /\ values = host.pre.values

\* C9 witness: define_global of an unbound name with a value whose push
\* failed, after a global was bound.
C9_Witness ==
    /\ host.last = "define_global" /\ ~host.bound /\ host.status = "Error"
    /\ Len(globals) >= 1 /\ Len(values) = MaxPushed
    /\ ret.st = "err"

\* C11: every structural fault reached while executing bytecode, an
\* arithmetic instruction on an operand of the wrong kind included, ends the
\* call with an error returned to the host; none aborts the interpreter.
C11_FaultsReturnErrors == pc # "abort"

\* A value of a kind that do_call refuses.
NonCallable(v) == v.k \notin {"Function", "Closure", "PartialApplication"}

\* C12: Call(a) or call_function(a) on a callable slot that holds neither a
\* Function, a Closure nor a PartialApplication returns a "Cannot call"
\* error, enters no frame and changes no slot of the value stack.
C12_CannotCallLeavesStack ==
    /\ [][(AtInstr("Call")
             /\ NonCallable(get(State, len(State) - 1 - Instr(State).a)))
           => /\ pc' = "host"
              /\ ret' = [op |-> "call", st |-> "err", msg |-> "Cannot call"]
              /\ values' = values
              /\ Len(frames') = Len(frames)]_vars
    /\ []((pc = "host" /\ host.last = "call" /\ host.e.f.k \in {"Int", "Float"})
           => /\ ret = [op |-> "call", st |-> "err", msg |-> "Cannot call"]
              /\ Len(frames) = Len(host.s0.frames)
              /\ values = host.s0.values \o <<host.e.f>>
                             \o ArgValues(host.e.xs, 0, host.done))

\* C12 witness: the bytecode called the integer 3 with one argument; the
\* frame of the caller and its four slots are as they were.
C12_Witness ==
    /\ pc = "host" /\ ret.msg = "Cannot call"
    /\ host.e.f = GlobalRef(7) /\ host.chains = 1
    /\ Len(frames) = 2
    /\ values = <<globals[8].value, IntVal(1), IntVal(3), IntVal(1)>>

\* The frame of a foreign function has been entered and its callback is
\* about to run; what the callback leaves.
ExternEntered ==
    /\ InFrame("Extern")
    /\ Frame(State).instruction_index = 0
    /\ Frame(State).function.v \notin freed
BridgeCallback == Callback(State, heap[Frame(State).function.v].id)

\* C13: when a host callback returns Status::Error the call returns an
\* error whose message is the string on top of the stack, or the generic
\* "Unexpected panic in VM" for a value of any other kind; the foreign frame
\* is exited and the callable slot, the arguments and the error value are
\* removed from the stack.
C13_CallbackErrorSurfaces ==
    [][(ExternEntered /\ BridgeCallback.status = "Error")
       => LET cb == BridgeCallback.s
          IN /\ pc' = "host" /\ ret'.op = "call" /\ ret'.st = "err"
             /\ ret'.msg = IF top(cb).k = "String" THEN cb.heap[top(cb).v].s
                            ELSE "Unexpected panic in VM"
             /\ frames' = SubSeq(frames, 1, Len(frames) - 1)
             /\ values' = SubSeq(values, 1, Frame(State).offset - 1)]_vars

\* C13 witness: the callback that fails with the string "boom" was called
\* with its one argument, and the host sees that message on an empty stack.
C13_Witness ==
    /\ pc = "host" /\ host.last = "call" /\ host.chains = 1
    /\ host.e.f = Native("fail") /\ host.done = 1
    /\ ret = [op |-> "call", st |-> "err", msg |-> "boom"]
    /\ values = <<>> /\ Len(frames) = 1

\* C14: after the bridge has run a callback that returned Status::Ok, the
\* foreign frame is exited and the callable slot and the argument slots are
\* replaced by the one value that was on top when the callback returned,
\* whatever the callback left below it; the slots below are unchanged.
C14_BridgeReplacesCallWithResult ==
    [][(ExternEntered /\ BridgeCallback.status = "Ok")
       => /\ pc' = "execute"
          /\ frames' = SubSeq(frames, 1, Len(frames) - 1)
          /\ values' = SubSeq(values, 1, Frame(State).offset - 1)
                          \o <<top(BridgeCallback.s)>>]_vars

\* C14 witness: the bytecode called snd 4 6 exactly, over three slots of its
\* own; the callback left a scratch value below its result.
C14_Witness ==
    /\ pc = "execute" /\ host.e.f = GlobalRef(8) /\ host.done = 2
    /\ Frame(State).function.k = "Closure"
    /\ Frame(State).instruction_index = 5
    /\ values = <<globals[9].value, IntVal(4), IntVal(6), IntVal(1), IntVal(6)>>

IsRootedValue(h) == h.kind = "RootedValue" /\ ~h.clone
IsRoot(h) == h.kind = "Root"
HandleValues(hs) == [i \in 1..Len(hs) |-> hs[i].v]

\* C15: with the handles released last one first, the pinned values are
\* exactly the values of the live RootedValue handles, in creation order,
\* the pinned objects are exactly the objects of the live Root handles above
\* the entry of the thread, and so no value of a live handle is collected.
C15_LiveHandlesArePinned ==
    /\ rooted_values = HandleValues(SelectSeq(host.handles, IsRootedValue))
    /\ roots = <<1>> \o HandleValues(SelectSeq(host.handles, IsRoot))
    /\ \A i \in 1..Len(host.handles) :
         (host.handles[i].kind = "Root"
            \/ host.handles[i].v.k \in PointerKinds) =>
           (IF host.handles[i].kind = "Root" THEN host.handles[i].v
            ELSE host.handles[i].v.v) \notin freed

NeverEqualKinds == {"Closure", "Function", "PartialApplication", "Lazy", "Thread"}

\* C16: a Closure, Function, PartialApplication, Lazy or Thread value is
\* unequal to every value, itself included, and a Data holding such a value
\* in a field is not equal to itself.
C16_OpaqueValuesNeverEqual ==
    host.last = "eq"
        => /\ (host.x.k \in NeverEqualKinds \/ host.y.k \in NeverEqualKinds)
                => ~host.eq
           /\ (host.x = host.y /\ host.x.k = "Data"
                 /\ \E i \in 1..Len(heap[host.x.v].fields) :
                       heap[host.x.v].fields[i].k \in NeverEqualKinds)
                => ~host.eq

\* C17: equality is structural for Int, Float, String and Data (equal tags
\* and pairwise equal fields, whether or not the same object), pointer
\* identity for Userdata, and false between different variants.
C17_StructuralEquality ==
    host.last = "eq"
        => LET x == host.x
               y == host.y
           IN /\ x.k # y.k => ~host.eq
              /\ (x.k = y.k /\ x.k \in {"Int", "Float", "Userdata"})
                   => (host.eq <=> x.v = y.v)
              /\ (x.k = y.k /\ x.k = "String")
                   => (host.eq <=> heap[x.v].s = heap[y.v].s)
              /\ (x.k = y.k /\ x.k = "Data")
                   => (host.eq <=>
                         /\ heap[x.v].tag = heap[y.v].tag
                         /\ Len(heap[x.v].fields) = Len(heap[y.v].fields)
                         /\ \A i \in 1..Len(heap[x.v].fields) :
                              ValueEq(State, heap[x.v].fields[i],
                                      heap[y.v].fields[i], MaxDepth))

\* C17 witness: two different objects that hold a data value and a string
\* each, equal field by field, compare equal.
C17_Witness ==
    /\ host.last = "eq" /\ host.x = Data(16) /\ host.y = Data(17) /\ host.eq

\* The field walk of a path as the claim words it: each component is a field
\* of the record type reached so far, read at that field's position.
RECURSIVE Reaches(_, _, _, _, _)
Reaches(typ, value, components, T, result) ==
    IF components = <<>> THEN typ = T /\ value = result
    ELSE /\ typ.k = "Record" /\ value.k = "Data"
         /\ \E i \in 1..Len(typ.fields) :
              /\ typ.fields[i].name = Head(components)
              /\ \A j \in 1..(i - 1) : typ.fields[j].name # Head(components)
              /\ Reaches(typ.fields[i].typ, heap[value.v].fields[i],
                         Tail(components), T, result)

\* Some component of the path is not a field of the record type reached.
RECURSIVE NotAField(_, _)
NotAField(typ, components) ==
    /\ components # <<>>
    /\ \/ typ.k # "Record"
       \/ \A i \in 1..Len(typ.fields) : typ.fields[i].name # Head(components)
       \/ \E i \in 1..Len(typ.fields) :
            /\ typ.fields[i].name = Head(components)
            /\ \A j \in 1..(i - 1) : typ.fields[j].name # Head(components)
            /\ NotAField(typ.fields[i].typ, Tail(components))

\* The static type the path reaches from typ, None when it reaches none.
RECURSIVE TypeReached(_, _)
TypeReached(typ, components) ==
    IF components = <<>> THEN typ
    ELSE IF NotAField(typ, components) THEN None
    ELSE LET i == CHOOSE i \in 1..Len(typ.fields) :
                     /\ typ.fields[i].name = Head(components)
                     /\ \A j \in 1..(i - 1) : typ.fields[j].name # Head(components)
         IN TypeReached(typ.fields[i].typ, Tail(components))

GlobalNamed(name) == globals[names[name] + 1]
FirstBound(path) == path # <<>> /\ <<Head(path)>> \in DOMAIN names

ModuleReturned == Run(call_bytecode(host.s0, host.closure))
ModuleApplied ==
    Run(call_function(push(push(pop(ModuleReturned), top(ModuleReturned)), IntVal(0)),
                      1, FALSE))

\* C19: call_module runs the top-level closure to completion; when the type
\* of the module is IO a its result is the result of applying the value the
\* closure returned to the one argument Int 0 by the calling convention, and
\* for any other type its result is the value the closure returned.
C19_ModuleResult ==
    (host.last = "module" /\ Succeeded(ModuleReturned)) =>
      IF host.typ.k = "Data" /\ host.typ.id = "IO"
      THEN /\ pc = ModuleApplied.pc /\ ret.st = ModuleApplied.ret.st
           /\ ret.msg = ModuleApplied.ret.msg
           /\ ret.st = "ok" =>
                Deep(State, host.value, MaxDepth)
                  = Deep(ModuleApplied, top(ModuleApplied), MaxDepth)
      ELSE /\ pc = "host" /\ ret.st = "ok"
           /\ Deep(State, host.value, MaxDepth)
                = Deep(ModuleReturned, top(ModuleReturned), MaxDepth)

C19_Witness ==
    /\ host.last = "module" /\ host.typ = IOType /\ pc = "host" /\ ret.st = "ok"
    /\ host.value = IntVal(1)

\* C20: register_type with a name that is registered returns an error and
\* leaves the name-to-type map and the map of host type ids as they were;
\* with a fresh name it records exactly one new nominal type under the name.
C20_RegisterType ==
    host.last = "register" =>
      IF host.name \in DOMAIN host.pre.type_infos.id_to_type
      THEN /\ ret.st = "err"
           /\ type_infos = host.pre.type_infos
           /\ typeids = host.pre.typeids
      ELSE /\ ret.st = "ok"
           /\ DOMAIN type_infos.id_to_type
                = DOMAIN host.pre.type_infos.id_to_type \cup {host.name}
           /\ \A n \in DOMAIN host.pre.type_infos.id_to_type :
                type_infos.id_to_type[n] = host.pre.type_infos.id_to_type[n]
           /\ DOMAIN typeids = DOMAIN host.pre.typeids \cup {host.T}
           /\ \A id \in DOMAIN host.pre.typeids : typeids[id] = host.pre.typeids[id]
           /\ typeids[host.T] = [k |-> "Data", id |-> host.name, args |-> host.args]

\* What the claim expects of an instruction on the earlier-pushed l and the
\* later-pushed r.
Quotient(l, r) ==
    CHOOSE q \in -(Abs(l))..Abs(l) :
        /\ Abs(q) * Abs(r) <= Abs(l) /\ Abs(l) < (Abs(q) + 1) * Abs(r)
        /\ (q # 0 => ((q > 0) = ((l > 0) = (r > 0))))
Truth(b) == [k |-> "Int", v |-> IF b THEN 1 ELSE 0]
Expected(op, l, r) ==
    CASE op = "AddInt" -> [k |-> "Int", v |-> l.v + r.v]
      [] op = "SubtractInt" -> [k |-> "Int", v |-> l.v - r.v]
      [] op = "MultiplyInt" -> [k |-> "Int", v |-> l.v * r.v]
      [] op = "DivideInt" -> [k |-> "Int", v |-> Quotient(l.v, r.v)]
      [] op = "AddFloat" -> [k |-> "Float", v |-> l.v + r.v]
      [] op = "SubtractFloat" -> [k |-> "Float", v |-> l.v - r.v]
      [] op = "MultiplyFloat" -> [k |-> "Float", v |-> l.v * r.v]
      [] op \in {"IntLT", "FloatLT"} -> Truth(l.v < r.v)
      [] OTHER -> Truth(l.v = r.v)
\* The result is the expected one; of a division of floats it is the float
\* that multiplied by r gives l.
IsResult(x, op, l, r) ==
    IF op = "DivideFloat"
    THEN /\ x.k = "Float"
         /\ r.v # 0 => IF "over" \in DOMAIN x THEN x.v = l.v /\ x.over = r.v
                       ELSE x.v * r.v = l.v
    ELSE x = Expected(op, l, r)

AtBinop ==
    /\ pc = "instr" /\ ~AtEnd(State) /\ Instr(State).op \in BinOps
    /\ values[Len(values)].k = (IF Instr(State).op \in IntOps THEN "Int" ELSE "Float")
    /\ values[Len(values) - 1].k = values[Len(values)].k

BinopReplaces ==
    /\ pc' = "instr"
    /\ Len(values') = Len(values) - 1
    /\ SubSeq(values', 1, Len(values) - 2) = SubSeq(values, 1, Len(values) - 2)
    /\ IsResult(values'[Len(values')], Instr(State).op,
                values[Len(values) - 1], values[Len(values)])

\* C21 (as stated): every arithmetic or comparison instruction on two
\* operands of the right kind puts one result in the place of the top two
\* slots, the earlier-pushed value being the left operand; a comparison
\* gives Int 1 or Int 0; (2 + 3) * 4 leaves 20.
C21_BinopReplacesTopTwo ==
    /\ []((pc = "host" /\ host.last = "call" /\ host.op = "twenty")
            => (ret.st = "ok" /\ values[Len(values)] = [k |-> "Int", v |-> 20]))
    /\ [][AtBinop => BinopReplaces]_vars

\* C21 (amended): the same of every instruction but DivideInt with the
\* divisor 0, which aborts.
C21_BinopReplacesUnlessDivideByZero ==
    /\ []((pc = "host" /\ host.last = "call" /\ host.op = "twenty")
            => (ret.st = "ok" /\ values[Len(values)] = [k |-> "Int", v |-> 20]))
    /\ [][AtBinop =>
            IF Instr(State).op = "DivideInt" /\ values[Len(values)].v = 0
            THEN pc' = "abort"
            ELSE BinopReplaces]_vars

C21_Witness ==
    /\ pc = "host" /\ host.last = "call" /\ host.op = "SubtractInt"
    /\ host.l = 2 /\ host.r = -1
    /\ ret.st = "ok" /\ values[Len(values)] = [k |-> "Int", v |-> 3]

\* The stack the host hands to call_function in the call it makes in this
\* step, and the number of arguments on it.
HostCalls == pc = "host" /\ host'.last = "call" /\ host'.chains = host.chains + 1
HostCallStack ==
    pushall(PushablePush(State, host'.e.f, FALSE).s,
            ArgValues(host'.e.xs, 0, host'.done)).values

\* do_call on the stack before, with a arguments, over-applies a closure or
\* a foreign function of fewer parameters.
OverApplies(before, a) ==
    LET callee == before[Len(before) - a]
    IN /\ callee.k \in {"Closure", "Function"}
       /\ a > (IF callee.k = "Function" THEN heap'[callee.v].args
               ELSE heap'[heap'[callee.v].function].args)

\* The state the claim describes after the over-application: the bundle of
\* the last a - r arguments directly below the callable, the r arguments
\* above it, and the frame of the callee on top with excess set.
ExcessFrameEntered(before, a) ==
    LET at == Len(before) - a
        callee == before[at]
        r == IF callee.k = "Function" THEN heap'[callee.v].args
             ELSE heap'[heap'[callee.v].function].args
        frame == frames'[Len(frames')]
    IN /\ pc' = "execute"
       /\ Len(frames') = Len(frames) + 1
       /\ Len(values') = Len(before) - (a - r) + 1
       /\ SubSeq(values', 1, at - 1) = SubSeq(before, 1, at - 1)
       /\ values'[at].k = "Data"
       /\ heap'[values'[at].v].kind = "Data"
       /\ heap'[values'[at].v].tag = 0
       /\ heap'[values'[at].v].fields = SubSeq(before, at + r + 1, Len(before))
       /\ values'[at + 1] = callee
       /\ SubSeq(values', at + 2, Len(values')) = SubSeq(before, at + 1, at + r)
       /\ frame.offset = at + 1
       /\ frame.function.v = callee.v
       /\ frame.excess

\* C22: an over-application of a closure or of a foreign function packs the
\* last a - r arguments in order into a Data of tag 0, pops them, puts the
\* Data directly below the callable and enters the frame of the callee with
\* excess set.
C22_OverApplicationEntersExcessFrame ==
    [][/\ (HostCalls /\ OverApplies(HostCallStack, host'.done))
            => ExcessFrameEntered(HostCallStack, host'.done)
       /\ (pc = "instr" /\ ~AtEnd(State) /\ Instr(State).op = "Call"
             /\ OverApplies(values, Instr(State).a))
            => ExcessFrameEntered(values, Instr(State).a)]_vars

\* C23: a closure frame that reaches the end of its instructions pops its
\* result, removes its locals and its callable slot and is exited; with
\* excess set the bundle directly below is popped, the result and the fields
\* of the bundle in order are pushed and a call with as many arguments is
\* dispatched in the parent frame; otherwise the result alone is pushed and
\* the parent frame goes on from its saved instruction index.
C23_ReturnFromClosureFrame ==
    [][(pc = "instr" /\ AtEnd(State)) =>
         LET r == values[Len(values)]
             base == Frame(State).offset
             parent == SubSeq(frames, 1, Len(frames) - 1)
         IN IF Frame(State).excess
            THEN /\ values[base - 1].k = "Data"
                 /\ LET fields == heap[values[base - 1].v].fields
                        s == [State EXCEPT
                                !.frames = parent,
                                !.values = SubSeq(values, 1, base - 2) \o <<r>> \o fields]
                    IN \E c \in BOOLEAN :
                         LET d == do_call(s, Len(fields), c)
                         IN /\ values' = d.values /\ frames' = d.frames
                            /\ heap' = d.heap /\ freed' = d.freed /\ pc' = d.pc
            ELSE /\ values' = SubSeq(values, 1, base - 1) \o <<r>>
                 /\ frames' = parent
                 /\ heap' = heap
                 /\ pc' = "execute"]_vars

\* A frame with excess set has returned a closure that was called with the
\* one saved argument.
C23_Witness ==
    /\ pc = "host" /\ host.last = "call" /\ ret.st = "ok"
    /\ host.e.f = GlobalRef(2) /\ host.done = 2 /\ host.chunks = 1
    /\ values = <<IntVal(15)>>

\* C24: TailCall(a) in a frame with excess set calls the new callee with its
\* a arguments and then the fields of the frame's bundle in order; the old
\* callable slot, the locals and the bundle are off the stack before the
\* callee runs.
C24_TailCallCarriesExcess ==
    [][(pc = "instr" /\ ~AtEnd(State) /\ Instr(State).op = "TailCall"
          /\ Frame(State).excess) =>
         LET a == Instr(State).a
             base == Frame(State).offset
             fields == heap[values[base - 1].v].fields
             s == [State EXCEPT
                     !.frames = SubSeq(frames, 1, Len(frames) - 1),
                     !.values = SubSeq(values, 1, base - 2)
                                  \o SubSeq(values, Len(values) - a, Len(values))
                                  \o fields]
         IN /\ values[base - 1].k = "Data"
            /\ \E c \in BOOLEAN :
                 LET d == do_call(s, a + Len(fields), c)
                 IN /\ values' = d.values /\ frames' = d.frames
                    /\ heap' = d.heap /\ freed' = d.freed /\ pc' = d.pc]_vars

\* loop 2 7: the tail calls have carried the argument 7 to inc.
C24_Witness ==
    /\ pc = "host" /\ host.last = "call" /\ ret.st = "ok"
    /\ host.e.f = GlobalRef(3) /\ host.done = 2 /\ host.chunks = 1
    /\ values = <<IntVal(8)>>

\* The call the host or the bytecode dispatches in this step: the stack
\* handed to do_call and the number of arguments.
HostApplies ==
    /\ pc = "host" /\ host'.last = "call"
    /\ host'.chains = host.chains /\ host'.chunks = host.chunks + 1
HostApplyStack ==
    pushall(State, ArgValues(host.e.xs, host.done, host'.done - host.done)).values
BytecodeCalls == pc = "instr" /\ ~AtEnd(State) /\ Instr(State).op = "Call"

\* The callable a called value stands for, its bound arguments and its arity.
Underlying(v) ==
    CASE v.k = "Closure" ->
           [function |-> [k |-> "Closure", v |-> v.v], bound |-> <<>>,
            arity |-> heap'[heap'[v.v].function].args]
      [] v.k = "Function" ->
           [function |-> [k |-> "Extern", v |-> v.v], bound |-> <<>>,
            arity |-> heap'[v.v].args]
      [] v.k = "PartialApplication" ->
           [function |-> heap'[v.v].function, bound |-> heap'[v.v].arguments,
            arity |-> IF heap'[v.v].function.k = "Extern"
                      THEN heap'[heap'[v.v].function.v].args
                      ELSE heap'[heap'[heap'[v.v].function.v].function].args]
      [] OTHER -> [function |-> v, bound |-> <<>>, arity |-> 0]

IsCallable(v) == v.k \in {"Closure", "Function", "PartialApplication"}

UnderApplies(before, a) ==
    LET callee == before[Len(before) - a]
    IN /\ IsCallable(callee)
       /\ Len(Underlying(callee).bound) + a < Underlying(callee).arity

\* The partial application the claim describes, in the place of the callable
\* slot and the a arguments, and no frame entered.
PartialApplicationMade(before, a) ==
    LET at == Len(before) - a
        u == Underlying(before[at])
        made == values'[Len(values')]
    IN /\ pc' = "execute"
       /\ Len(frames') = Len(frames)
       /\ \A i \in 1..Len(frames) :
            /\ frames'[i].offset = frames[i].offset
            /\ frames'[i].function = frames[i].function
       /\ Len(values') = at
       /\ SubSeq(values', 1, at - 1) = SubSeq(before, 1, at - 1)
       /\ made.k = "PartialApplication"
       /\ made.v > Len(heap)
       /\ heap'[made.v].kind = "PartialApplication"
       /\ heap'[made.v].function = u.function
       /\ heap'[made.v].arguments = u.bound \o SubSeq(before, at + 1, Len(before))

\* C25: an under-application, the bound arguments of a called partial
\* application counted, makes a PartialApplication of the underlying
\* callable and the arguments in stack order, pops the arguments and the
\* callable slot, pushes the PartialApplication and enters no frame.
C25_UnderApplicationMakesPartial ==
    [][/\ (HostCalls /\ UnderApplies(HostCallStack, host'.done))
            => PartialApplicationMade(HostCallStack, host'.done)
       /\ (HostApplies /\ UnderApplies(HostApplyStack, host'.done - host.done))
            => PartialApplicationMade(HostApplyStack, host'.done - host.done)
       /\ (BytecodeCalls /\ UnderApplies(values, Instr(State).a))
            => PartialApplicationMade(values, Instr(State).a)]_vars

\* add3 1 and then (add3 1) 2: the second partial application holds 1, 2.
C25_Witness ==
    /\ CallReturned /\ ret.st = "ok"
    /\ host.e.f = GlobalRef(0) /\ host.chunks = 2 /\ host.done = 2
    /\ top(State).k = "PartialApplication"
    /\ heap[top(State).v].arguments = <<IntVal(1), IntVal(2)>>
    /\ heap[top(State).v].function.k = "Closure"

\* The call of a partial application, dispatched on the state s with a
\* arguments: the inner callable is called on the bound arguments and then
\* the new ones, and the object of the partial application stays as it was.
PartialApplicationCalled(s, a) ==
    LET at == Len(s.values) - a
        pap == s.values[at]
        app == heap[pap.v]
        spliced == [s EXCEPT !.values = SubSeq(@, 1, at) \o app.arguments
                                          \o SubSeq(@, at + 1, Len(@))]
    IN /\ heap'[pap.v] = app
       /\ \E c \in BOOLEAN :
            LET d == call_function_with_upvars(spliced, Len(app.arguments) + a,
                                               CallableArgs(s, app.function),
                                               app.function, c)
            IN /\ values' = d.values /\ frames' = d.frames
               /\ heap' = d.heap /\ pc' = d.pc

CallsPartialApplication(before, a) == before[Len(before) - a].k = "PartialApplication"

\* C26: a call of a PartialApplication with bound arguments b1..bk and new
\* arguments x1..xa gives the inner callable the arguments b1..bk, x1..xa in
\* that order, k + a of them, and leaves the bound arguments of the object
\* as they were, so that it can be called again with the same outcome.
C26_PartialApplicationSplicesBound ==
    [][/\ (HostApplies /\ CallsPartialApplication(HostApplyStack, host'.done - host.done))
            => PartialApplicationCalled([State EXCEPT !.values = HostApplyStack],
                                        host'.done - host.done)
       /\ (BytecodeCalls /\ CallsPartialApplication(values, Instr(State).a))
            => PartialApplicationCalled(set_instruction_index(State, index + 1),
                                        Instr(State).a)]_vars

\* The same with no collection between the making of the partial
\* application and its call.
C26_WhileInnerCallableAlive ==
    [][/\ (HostApplies /\ CallsPartialApplication(HostApplyStack, host'.done - host.done)
             /\ heap[values[Len(values)].v].function.v \notin freed)
            => PartialApplicationCalled([State EXCEPT !.values = HostApplyStack],
                                        host'.done - host.done)
       /\ (BytecodeCalls /\ CallsPartialApplication(values, Instr(State).a)
             /\ heap[values[Len(values) - Instr(State).a].v].function.v \notin freed)
            => PartialApplicationCalled(set_instruction_index(State, index + 1),
                                        Instr(State).a)]_vars

\* The frame a call of callee on the arguments xs has entered, when it has
\* entered one: the base is within the stack, the slot below the base holds
\* the called value (strictly: the closure or the foreign function of the
\* frame itself), and the slots from the base hold the first arguments the
\* callable takes, the bound ones first.
FrameCreated(callee, xs, strictly) ==
    LET u == Underlying(callee)
        all == u.bound \o xs
        frame == frames'[Len(frames')]
        base == frame.offset
    IN (IsCallable(callee) /\ Len(all) >= u.arity /\ pc' = "execute") =>
         /\ base >= 1 /\ base <= Len(values')
         /\ frame.function = u.function
         /\ IF strictly
            THEN /\ values'[base].k \in {"Closure", "Function"}
                 /\ values'[base].v = frame.function.v
            ELSE values'[base] = callee
         /\ base + u.arity <= Len(values')
         /\ SubSeq(values', base + 1, base + u.arity) = SubSeq(all, 1, u.arity)

\* The arguments on top of a stack.
TopValues(before, a) == SubSeq(before, Len(before) - a + 1, Len(before))

\* The saved arguments of the current frame, if it has any.
SavedArguments ==
    IF Frame(State).excess THEN heap[values[Frame(State).offset - 1].v].fields ELSE <<>>

FramesCreated(strictly) ==
    /\ HostCalls =>
         FrameCreated(HostCallStack[Len(HostCallStack) - host'.done],
                      TopValues(HostCallStack, host'.done), strictly)
    /\ HostApplies =>
         FrameCreated(values[Len(values)],
                      TopValues(HostApplyStack, host'.done - host.done), strictly)
    /\ BytecodeCalls =>
         FrameCreated(values[Len(values) - Instr(State).a],
                      TopValues(values, Instr(State).a), strictly)
    /\ (pc = "instr" /\ ~AtEnd(State) /\ Instr(State).op = "TailCall") =>
         FrameCreated(values[Len(values) - Instr(State).a],
                      TopValues(values, Instr(State).a) \o SavedArguments, strictly)
    /\ (pc = "instr" /\ AtEnd(State) /\ Frame(State).excess) =>
         FrameCreated(values[Len(values)], SavedArguments, strictly)

\* C27: every frame a call creates (exact, over-applied, through a partial
\* application or by TailCall) has its base within the stack, the closure or
\* foreign function recorded as its callable in the slot at base - 1, and the
\* arguments of the call in order in the slots from the base.
C27_FrameHoldsItsCallable == [][FramesCreated(TRUE)]_vars

\* C27, amended: the slot at base - 1 holds the value that was called, which
\* is the callable of the frame or a partial application of it.
C27_FrameHoldsCalledValue == [][FramesCreated(FALSE)]_vars

\* add3 1 2 and then 3: the frame of add3 entered through the partial
\* application, which is still in the slot below the base.
C27_Witness ==
    /\ pc = "execute" /\ Len(frames) = 2
    /\ values[Frame(State).offset].k = "PartialApplication"
    /\ heap[values[Frame(State).offset].v].function = Frame(State).function
    /\ SubSeq(values, Frame(State).offset + 1, Len(values))
         = <<IntVal(1), IntVal(2), IntVal(3)>>

\* The foreign frames whose callback is in progress.
CallbackRuns(i) == \E j \in 1..Len(host.calls) : host.calls[j].depth = i

InstructionsOf(frame) == heap[heap[frame.function.v].function].instructions

\* The instruction index of frame i is one the claim allows.
IndexInRange(i) ==
    LET frame == frames[i]
    IN CASE frame.function.k = "Closure" ->
              frame.instruction_index \in 0..Len(InstructionsOf(frame))
         [] frame.function.k = "Extern" ->
              /\ frame.instruction_index \in {0, 1}
              /\ CallbackRuns(i) => frame.instruction_index = 1
              /\ frame.instruction_index = 0 =>
                   i = Len(frames) /\ pc = "execute" /\ ~CallbackRuns(i)
         [] OTHER -> TRUE

\* A foreign frame that was called stays marked for as long as it is there.
StaysCalled(i) ==
    (/\ i <= Len(frames')
     /\ frames[i].function.k = "Extern" /\ frames'[i].function = frames[i].function
     /\ frames[i].instruction_index = 1)
      => frames'[i].instruction_index = 1

\* C28: in every reachable state each closure frame has an instruction index
\* from 0 to the number of instructions of its function, whatever the
\* targets of the jumps, and each foreign frame has instruction index 0
\* before its callback is started and 1 from then on.
C28_InstructionIndexInRange ==
    /\ [](\A i \in 1..Len(frames) : IndexInRange(i))
    /\ [][\A i \in 1..Len(frames) : StaysCalled(i)]_vars

\* apply viaapply 7: both callbacks are in progress, their frames marked,
\* and the frame of viaapply between them waits past its last instruction.
C28_Witness ==
    /\ Len(host.calls) = 2 /\ Len(frames) = 4
    /\ frames[2].function.k = "Extern" /\ frames[2].instruction_index = 1
    /\ frames[3].function.k = "Closure"
    /\ frames[3].instruction_index = Len(InstructionsOf(frames[3]))
    /\ frames[4].function.k = "Extern" /\ frames[4].instruction_index = 1

\* The loop of execute is at a foreign frame.
AtForeignFrame == pc = "execute" /\ Frame(State).function.k = "Extern"

\* C29: a callback is invoked once for a foreign call: the loop invokes it at
\* a foreign frame that was not called yet and marks the frame; when the
\* call_function of the callback has completed, the loop stops at the marked
\* frame and returns to the callback with that frame current and the result
\* on top of what the callback had, without invoking the callback again and
\* without running the frames below.
C29_CallbackInvokedOnce ==
    [][/\ host'.invoked \in {host.invoked, host.invoked + 1}
       /\ host'.invoked = host.invoked + 1 =>
            /\ AtForeignFrame /\ Frame(State).instruction_index = 0
            /\ Len(frames') = Len(frames)
            /\ frames'[Len(frames)].instruction_index = 1
       /\ (AtForeignFrame /\ Frame(State).instruction_index = 0
             /\ Frame(State).function.v \notin freed) =>
            host'.invoked = host.invoked + 1
       /\ (AtForeignFrame /\ Frame(State).instruction_index # 0) =>
            /\ Len(host.calls) > 0
            /\ CurrentCall.depth = Len(frames) /\ CurrentCall.phase = "calling"
            /\ pc' = "host" /\ ret'.st = "ok"
            /\ frames' = frames /\ values' = values /\ host' = host
            /\ Len(values) = Len(CurrentCall.stack) + 1
            /\ SubSeq(values, 1, Len(values) - 1) = CurrentCall.stack]_vars

\* apply viaapply 7: the outer callback has control again over the result 8,
\* after the callback of the inner apply was invoked and has returned.
C29_Witness ==
    /\ CallbackAt("calling") /\ ret.st = "ok"
    /\ Len(host.calls) = 1 /\ host.invoked = 2 /\ host.made = 1
    /\ Frame(State).function.k = "Extern" /\ Len(frames) = 2
    /\ values[Len(values)] = IntVal(8)

\* C30: when a callback is invoked, at any depth, the interpreter holds no
\* borrow of the stack, so that the pushes, the calls and the collections of
\* the callback never find the stack borrowed; the interpreter holds the
\* stack again while it runs.
C30_StackFreeInCallback ==
    /\ CallbackAt("start") => ~host.borrowed
    /\ ret.msg # "already borrowed"
    /\ pc \in {"execute", "instr"} => host.borrowed

\* apply viaapply 7: the inner callback has collected and called inc, which
\* runs over the frames of both callbacks.
C30_Witness ==
    /\ Len(host.calls) = 2 /\ CurrentCall.collected /\ CurrentCall.phase = "calling"
    /\ pc = "instr" /\ Len(frames) = 5 /\ host.borrowed

\* C31: tracing marks every object a value owns, transitively: the fields of
\* a Data, the function and the upvars of a Closure, the bound arguments and
\* the callable of a PartialApplication, closure or foreign function alike;
\* so that what the roots reach, through a partial application too, is what
\* a collection marks.
C31_TracingMarksOwned ==
    /\ \A p \in 1..Len(heap) :
         p \notin freed => ObjectRefs(heap[p]) \subseteq ObjectTraverse(heap[p])
    /\ MarkFrom(heap, RootsTraverse(State), {}) = Reachable(State)

\* What the interpreter still uses after a step: the stack, the callables of
\* the frames, and everything they hold pointers to.
UsedAfter ==
    ReachFrom(heap',
              SliceTraverse(values')
                \cup {frames'[i].function.v :
                        i \in {j \in 1..Len(frames') : frames'[j].function.k # "None"}},
              {})

\* A step of a call in which the interpreter allocates.
InterpreterAllocates ==
    /\ Len(heap') > Len(heap)
    /\ pc \in {"instr", "execute"} \/ host'.last = "call"

\* C32: at every allocation of the interpreter, what is captured into the new
\* object and what the interpreter uses afterwards is rooted: a collection at
\* the allocation frees none of it.
C32_AllocationSeesRoots ==
    [][InterpreterAllocates =>
         /\ pc' # "undefined"
         /\ UsedAfter \cap (freed' \ freed) = {}]_vars

\* The same for what tracing reaches from the stack and the frames: the
\* values are popped only after the allocation has returned.
C32_AllocationSeesTraced ==
    [][InterpreterAllocates =>
         MarkFrom(heap',
                  SliceTraverse(values')
                    \cup {frames'[i].function.v :
                            i \in {j \in 1..Len(frames') : frames'[j].function.k = "Closure"}},
                  {}) \cap (freed' \ freed) = {}]_vars

C33_CloseClosureFillsUpvars ==
    [][/\ (AtInstr("NewClosure") /\ Instr(State).b <= MaxPlaceholders) =>
            LET n == Instr(State).b
                p == Len(heap) + 1
            IN /\ values' = Append(values, Closure(p))
               /\ Len(heap') = p
               /\ SubSeq(heap', 1, Len(heap)) = heap
               /\ heap'[p].kind = "Closure"
               /\ heap'[p].function
                    = CurrentFunction(State).inner_functions[Instr(State).a + 1]
               /\ heap'[p].upvars = [i \in 1..n |-> IntVal(0)]
       /\ (/\ AtInstr("CloseClosure")
           /\ values[Len(values) - Instr(State).a].k = "Closure"
           /\ Len(heap[values[Len(values) - Instr(State).a].v].upvars) = Instr(State).a) =>
            LET n == Instr(State).a
                closure == values[Len(values) - n]
                pushed == SubSeq(values, Len(values) - n + 1, Len(values))
            IN /\ values' = SubSeq(values, 1, Len(values) - n - 1)
               /\ heap' = [heap EXCEPT ![closure.v].upvars = pushed]
               /\ \A j \in 1..Len(values') :
                    (values'[j].k = "Closure" /\ values'[j].v = closure.v)
                      => \A i \in 1..n : heap'[values'[j].v].upvars[i] = pushed[i]]_vars

\* close 7 5 and then the closure called: 7 - 5, read from upvars 0 and 1
\* through the reference that the function returned.
C33_Witness ==
    /\ pc = "host" /\ host.last = "closed" /\ ret.st = "ok"
    /\ host.xs = <<IntVal(7), IntVal(5)>>
    /\ values[Len(values)] = IntVal(2)

\* The array and the index of an index instruction with d values above them.
IndexArray(d) == values[Len(values) - d - 1]
IndexValue(d) == values[Len(values) - d]
Indexable(d) ==
    /\ IndexArray(d).k = "Data" /\ IndexValue(d).k = "Int"
    /\ IndexValue(d).v \in 0..(Len(heap[IndexArray(d).v].fields) - 1)

\* C34: SetIndex pops the value, the index and the array, pushes nothing and
\* writes that one field of the array object and nothing else; GetIndex pops
\* the index and the array and pushes the element, the heap unchanged; so
\* that the field read back, and read through the reference the host kept,
\* is the value written, the other field as it was.
C34_SetIndexWritesOneField ==
    /\ []((pc = "host" /\ host.last = "index" /\ ret.st = "ok") =>
            /\ values[Len(values)] = host.xs[2]
            /\ heap[values[1].v].fields
                 = [<<IntVal(10), IntVal(20)>> EXCEPT ![host.n + 1] = host.xs[2]])
    /\ [][/\ (AtInstr("SetIndex") /\ Indexable(1)) =>
               /\ values' = SubSeq(values, 1, Len(values) - 3)
               /\ heap' = [heap EXCEPT
                             ![IndexArray(1).v].fields[IndexValue(1).v + 1]
                               = values[Len(values)]]
               /\ pc' = "instr"
          /\ (AtInstr("GetIndex") /\ Indexable(0)) =>
               /\ values' = Append(SubSeq(values, 1, Len(values) - 2),
                                   heap[IndexArray(0).v].fields[IndexValue(0).v + 1])
               /\ heap' = heap
               /\ pc' = "instr"]_vars

\* setget a 1 7: the second field of the array the host kept is 7, the first
\* still 10, and 7 was read back.
C34_Witness ==
    /\ pc = "host" /\ host.last = "index" /\ ret.st = "ok" /\ host.n = 1
    /\ values[Len(values)] = IntVal(7)
    /\ heap[values[1].v].fields = <<IntVal(10), IntVal(7)>>

\* C35: in every reachable state the pinned-value stack has as many entries
\* as there are live RootedValue handles, whatever values were rooted and
\* whatever handles were copied and dropped.
C35_PinnedCountIsLiveHandles ==
    LET IsValueHandle(h) == h.kind = "RootedValue"
    IN Len(rooted_values) = Len(SelectSeq(host.handles, IsValueHandle))

\* C36: a call_function that has completed with success has left the frames
\* as they were at the call, the frame of the caller current, and one result
\* in the place of the callable and its arguments, above slots that are
\* unchanged; for a callable given its arguments in one go or in several,
\* too few, as many or more than it takes.
C36_CallReplacesCallableWithResult ==
    (CallReturned /\ ret.st = "ok") =>
      /\ frames = host.s0.frames
      /\ Len(values) = Len(host.s0.values) + 1
      /\ SubSeq(values, 1, Len(host.s0.values)) = host.s0.values

\* The same on a machine no earlier call has failed on, for every callable
\* but the foreign functions given more arguments than they take.
C36_UnlessForeignOverApplied ==
    (CallReturned /\ ret.st = "ok" /\ host.chains = 1
       /\ ~(host.e.f.k = "Native" /\ host.done > NativeArgs(host.e.f.id))) =>
      /\ frames = host.s0.frames
      /\ Len(values) = Len(host.s0.values) + 1
      /\ SubSeq(values, 1, Len(host.s0.values)) = host.s0.values

\* call_module has returned a value to the host.
ModuleSucceeded ==
    pc = "host" /\ host.last = "module" /\ host.phase = "idle" /\ ret.st = "ok"

\* C37: a call_module that succeeds leaves the evaluation stack and the
\* frames exactly as they were before it, slot for slot, whether the type
\* of the module is IO (a dummy slot, the action and its argument pushed, a
\* frame opened for the call) or not.
C37_CallModuleRestoresStack ==
    ModuleSucceeded => values = host.s0.values /\ frames = host.s0.frames

\* The same for the modules whose type is not IO, on a machine no earlier
\* call has failed on.
C37_UnlessIO ==
    (ModuleSucceeded /\ ~IsIO(host.typ) /\ host.calls = 1) =>
      values = host.s0.values /\ frames = host.s0.frames

\* With the type IO the frames are as before and the stack is one slot
\* higher: the dummy pushed to stand for the function.
C37_DummyLeft ==
    (ModuleSucceeded /\ IsIO(host.typ) /\ host.calls = 1) =>
      values = Append(host.s0.values, IntVal(0)) /\ frames = host.s0.frames

\* C38: the assertion of the destructor of a VM holds in every execution:
\* a VM made by VM::new or by new_vm and dropped after its Root and RootStr
\* handles have been released, in any order, finds one entry on its
\* pinned-object stack, the thread itself.
C38_DropFindsSelfRoot ==
    host.last = "drop_vm" =>
      /\ host.dropped.asserted
      /\ host.dropped.roots = <<host.dropped.self>>

\* The same as long as no collection has freed the thread of the VM.
C38_UnlessThreadFreed ==
    (host.last = "drop_vm" /\ host.dropped.self \notin freed) =>
      /\ host.dropped.asserted
      /\ host.dropped.roots = <<host.dropped.self>>

====
